---- MODULE Spec2Model ----
(***************************************************************************)
(* Slicer deployment targets (mage) and the per-workload deployers.        *)
(*                                                                         *)
(* The VM orchestrator is the environment: a list of VM records, each in   *)
(* a host group, with a hostname, an IP and the tags of its create         *)
(* request.  The mage targets and the Deployer methods are the actions.    *)
(* Go strings are TLA+ strings; s[:i] is SubSeq(s, 1, i).                  *)
(***************************************************************************)
EXTENDS Integers, Sequences, FiniteSets, TLC

VARIABLES
    env,      \* host-group environment variables of the mage invocations
    vms,      \* the orchestrator's VMs, in creation (= list) order
    nextId,   \* number of VMs created so far (hostnames are 1, 2, ...)
    last,     \* what the most recent target did and returned
    arg,      \* input of the pure function under check
    ret,      \* its result
    cluster,  \* the Kubernetes cluster and the Helm repo file, as the clients see them
    run       \* the provisioner operation in progress: position, calls so far, error

vars == <<env, vms, nextId, last, arg, ret, cluster, run>>

k8sVars == <<cluster, run>>

vmVars == <<env, vms, nextId, last>>

pureVars == <<arg, ret>>

(***************************************************************************)
(* Bounds.                                                                 *)
(***************************************************************************)
\* VM creations in the lifecycle specification
MaxVMs == 2

\* VM creations in the dependency-detection specification
MaxDepVMs == 3

(***************************************************************************)
(* Go string helpers.                                                      *)
(***************************************************************************)
\* the 1-based positions at which sep occurs in s
Occurrences(s, sep) ==
    { i \in 1..(Len(s) - Len(sep) + 1) : SubSeq(s, i, i + Len(sep) - 1) = sep }

\* strings.Index: 0-based index of the first occurrence of sep, -1 if none
Index(s, sep) ==
    LET at == Occurrences(s, sep)
    IN  IF at = {} THEN -1
        ELSE (CHOOSE i \in at : \A j \in at : i <= j) - 1

RECURSIVE ReplaceAll(_, _, _)
\* strings.ReplaceAll for a non-empty old: non-overlapping, left to right
ReplaceAll(s, old, new) ==
    LET i == Index(s, old)
    IN  IF i = -1 THEN s
        ELSE SubSeq(s, 1, i) \o new
             \o ReplaceAll(SubSeq(s, i + Len(old) + 1, Len(s)), old, new)

\* the "Strip CIDR suffix" idiom of the deploy targets
StripCIDR(ip) ==
    LET idx == Index(ip, "/")
    IN  IF idx # -1 THEN SubSeq(ip, 1, idx) ELSE ip

(***************************************************************************)
(* Tag matching and the list output.                                       *)
(***************************************************************************)
\* a tag match that accepts a tag beginning with the one looked for
hasTag_Prefix(tags, tag) ==
    \E i \in 1..Len(tags) :
        Len(tags[i]) >= Len(tag) /\ SubSeq(tags[i], 1, Len(tag)) = tag

RECURSIVE hasTagFrom(_, _, _)
hasTagFrom(tags, tag, i) ==
    IF i > Len(tags) THEN FALSE
    ELSE IF tags[i] = tag THEN TRUE
    ELSE hasTagFrom(tags, tag, i + 1)

hasTag(tags, tag) == hasTagFrom(tags, tag, 1)

RECURSIVE filterFrom(_, _, _)
filterFrom(nodes, tag, i) ==
    IF i > Len(nodes) THEN <<>>
    ELSE IF hasTag(nodes[i].Tags, tag)
         THEN <<nodes[i]>> \o filterFrom(nodes, tag, i + 1)
         ELSE filterFrom(nodes, tag, i + 1)

\* one printed line per node of the filtered list
NodeLine(node) ==
    [kind |-> "node", Hostname |-> node.Hostname, IP |-> node.IP,
     Tags |-> node.Tags, CreatedAt |-> node.CreatedAt]

\* the lines printNodeList prints
printNodeList(nodes, tag, label) ==
    LET filtered == filterFrom(nodes, tag, 1)
    IN  IF Len(filtered) = 0
        THEN << [kind |-> "none", label |-> label] >>
        ELSE << [kind |-> "header", label |-> label, count |-> Len(filtered)] >>
             \o [i \in 1..Len(filtered) |-> NodeLine(filtered[i])]

\* a device that keeps the node's IP as listed
DeviceOf_RawIP(node) ==
    [hostname |-> node.Hostname, ip |-> node.IP, created_at |-> node.CreatedAt]

\* one entry of devices.json
DeviceOf(node) ==
    [hostname |-> node.Hostname, ip |-> StripCIDR(node.IP),
     created_at |-> node.CreatedAt]

\* mage k3s:devices on the nodes listed: the devices it marshals
Devices(nodes) ==
    LET cpNodes == filterFrom(nodes, "k3s-cp", 1)
    IN  [i \in 1..Len(cpNodes) |-> DeviceOf(cpNodes[i])]

(***************************************************************************)
(* Config resolvers: environment variables merged with the defaults.       *)
(***************************************************************************)
DefaultHostGroup == "api"

DefaultDBName == "app"

DefaultDBUser == "app"

\* buildkit.DefaultConfig
BuildkitDefaultConfig(e) ==
    [HostGroup |-> IF e.SLICER_HOST_GROUP = "" THEN DefaultHostGroup
                   ELSE e.SLICER_HOST_GROUP,
     VCPU |-> 4, RAMGB |-> 8, StorageSize |-> "25G",
     Tags |-> <<"buildkit">>]

\* postgres.DefaultConfig
PostgresDefaultConfig(e) ==
    [HostGroup |-> IF e.SLICER_HOST_GROUP = "" THEN DefaultHostGroup
                   ELSE e.SLICER_HOST_GROUP,
     VCPU |-> 2, RAMGB |-> 4, StorageSize |-> "25G",
     Tags |-> <<"postgres">>,
     DBName |-> DefaultDBName, DBUser |-> DefaultDBUser, DBPass |-> ""]

\* gitea.DefaultConfig
GiteaDefaultConfig(e) ==
    [HostGroup |-> IF e.SLICER_HOST_GROUP = "" THEN DefaultHostGroup
                   ELSE e.SLICER_HOST_GROUP,
     VCPU |-> 2, RAMGB |-> 4, StorageSize |-> "25G",
     Tags |-> <<"gitea">>,
     DBHost |-> "", DBPort |-> 5432, DBName |-> "giteadb", DBUser |-> "gitea",
     DBPass |-> "", S3Endpoint |-> "", S3AccessKey |-> "", S3SecretKey |-> "",
     S3Bucket |-> "gitea", S3UseSSL |-> FALSE]

\* runner.DefaultConfig (the Gitea Actions runner deployer)
RunnerDefaultConfig(e) ==
    [HostGroup |-> IF e.SLICER_HOST_GROUP = "" THEN DefaultHostGroup
                   ELSE e.SLICER_HOST_GROUP,
     VCPU |-> 2, RAMGB |-> 4, StorageSize |-> "100G",
     Tags |-> <<"runner">>,
     GiteaURL |-> "", RunnerToken |-> "", RunnerName |-> "",
     Labels |-> "ubuntu-latest:docker://node:16-bullseye,ubuntu-22.04:docker://node:16-bullseye,ubuntu-20.04:docker://node:16-bullseye",
     Version |-> "0.2.11"]

DefaultCPHostGroup == "api"

DefaultAgentHostGroup == "api"

\* k3s.DefaultCPConfig
DefaultCPConfig(e) ==
    [HostGroup |-> IF e.K3S_CP_HOST_GROUP = "" THEN DefaultCPHostGroup
                   ELSE e.K3S_CP_HOST_GROUP,
     VCPU |-> 2, RAMGB |-> 4, StorageSize |-> "25G",
     Tags |-> <<"k3s", "k3s-cp">>,
     Count |-> 3, CIDR |-> "192.168.137.0/24"]

\* k3s.DefaultAgentConfig
DefaultAgentConfig(e) ==
    [HostGroup |-> IF e.K3S_AGENT_HOST_GROUP = "" THEN DefaultAgentHostGroup
                   ELSE e.K3S_AGENT_HOST_GROUP,
     VCPU |-> 2, RAMGB |-> 4, StorageSize |-> "25G",
     Tags |-> <<"k3s", "k3s-agent">>,
     CIDR |-> "192.168.138.0/24", APIPort |-> 8081, TapPrefix |-> "k3sa",
     K3sURL |-> "", K3sToken |-> ""]

\* rustfs.DefaultConfig: the package's Go file is not among the sources; it
\* follows the Deployer pattern (SLICER_HOST_GROUP or "api", tag "rustfs")
RustfsDefaultConfig(e) ==
    [HostGroup |-> IF e.SLICER_HOST_GROUP = "" THEN DefaultHostGroup
                   ELSE e.SLICER_HOST_GROUP,
     VCPU |-> 2, RAMGB |-> 4, StorageSize |-> "25G",
     Tags |-> <<"rustfs">>]

\* the workloads with list/delete/logs targets
Workloads == {"buildkit", "postgres", "gitea", "runner", "k3s-cp", "k3s-agent"}

DefaultConfigOf(w, e) ==
    CASE w = "buildkit"  -> BuildkitDefaultConfig(e)
      [] w = "postgres"  -> PostgresDefaultConfig(e)
      [] w = "gitea"     -> GiteaDefaultConfig(e)
      [] w = "runner"    -> RunnerDefaultConfig(e)
      [] w = "k3s-cp"    -> DefaultCPConfig(e)
      [] w = "k3s-agent" -> DefaultAgentConfig(e)
      [] w = "rustfs"    -> RustfsDefaultConfig(e)

\* a k3s:listCP that filters by the tag both k3s workloads carry
ListTag_Shared(w) == IF w = "k3s-cp" THEN "k3s" ELSE w

\* the tag each list target passes to printNodeList
ListTag(w) == w

\* the label each list target passes to printNodeList
ListLabel(w) ==
    CASE w = "buildkit"  -> "BuildKit"
      [] w = "postgres"  -> "PostgreSQL"
      [] w = "gitea"     -> "Gitea"
      [] w = "runner"    -> "Runner"
      [] w = "k3s-cp"    -> "K3s Control Plane"
      [] w = "k3s-agent" -> "K3s Agent"
      [] w = "rustfs"    -> "RustFS"

(***************************************************************************)
(* The VM orchestrator (Slicer), as the SDK client calls see it.           *)
(***************************************************************************)
\* the IP the orchestrator gives the id-th VM: some carry a CIDR suffix
NodeIP(id) ==
    LET ips == << "192.168.137.2/24", "192.168.137.3", "192.168.137.4/24",
                  "192.168.137.5", "192.168.137.6/24", "192.168.137.7" >>
    IN  ips[((id - 1) % Len(ips)) + 1]

\* client.CreateNode(hostGroup, req) on success: the new VM carries req.Tags
CreateNode(list, id, hostGroup, req, by) ==
    Append(list, [Hostname |-> id, HostGroup |-> hostGroup, IP |-> NodeIP(id),
                  Tags |-> req.Tags, CreatedAt |-> id, By |-> by])

RECURSIVE nodesFrom(_, _, _)
nodesFrom(list, hostGroup, i) ==
    IF i > Len(list) THEN <<>>
    ELSE IF list[i].HostGroup = hostGroup
         THEN <<list[i]>> \o nodesFrom(list, hostGroup, i + 1)
         ELSE nodesFrom(list, hostGroup, i + 1)

\* client.GetHostGroupNodes(hostGroup): the VMs of the host group, in order
GetHostGroupNodes(list, hostGroup) == nodesFrom(list, hostGroup, 1)

\* does DeleteVM(hostGroup, hostname) find a VM
VMExists(list, hostGroup, hostname) ==
    \E i \in 1..Len(list) :
        list[i].HostGroup = hostGroup /\ list[i].Hostname = hostname

RECURSIVE withoutFrom(_, _, _, _)
withoutFrom(list, hostGroup, hostname, i) ==
    IF i > Len(list) THEN <<>>
    ELSE IF list[i].HostGroup = hostGroup /\ list[i].Hostname = hostname
         THEN withoutFrom(list, hostGroup, hostname, i + 1)
         ELSE <<list[i]>> \o withoutFrom(list, hostGroup, hostname, i + 1)

\* client.DeleteVM(hostGroup, hostname) on success
DeleteVM(list, hostGroup, hostname) == withoutFrom(list, hostGroup, hostname, 1)

(***************************************************************************)
(* Password generation (postgres).                                         *)
(***************************************************************************)
alphanumeric == "abcdefghijklmnopqrstuvwxyzABCDEFGHIJKLMNOPQRSTUVWXYZ0123456789"

\* the length Deployer.Deploy asks for
PasswordLength == 24

\* rand.Int(rand.Reader, max) at the i-th draw of a random source rnd:
\* a value in 0..max-1, or a failure of the source at draw rnd.failAt
RandFails(rnd, i) == rnd.failAt = i

RandInt(rnd, i, max) == (rnd.seed + i * rnd.step) % max

RECURSIVE generateFrom(_, _, _, _)
generateFrom(length, rnd, i, result) ==
    IF i >= length THEN [s |-> result, err |-> ""]
    ELSE IF RandFails(rnd, i)
         THEN [s |-> "", err |-> "failed to generate random password"]
         ELSE LET num == RandInt(rnd, i, Len(alphanumeric))
              IN  generateFrom(length, rnd, i + 1,
                               result \o SubSeq(alphanumeric, num + 1, num + 1))

\* a generator whose loop stops one character early
GeneratePassword_Short(length, rnd) == generateFrom(length - 1, rnd, 0, "")

\* postgres.GeneratePassword(length) for length >= 0
GeneratePassword(length, rnd) == generateFrom(length, rnd, 0, "")

(***************************************************************************)
(* Remote calls and what a target reports.                                 *)
(***************************************************************************)
NoReq == [none |-> TRUE]

NoIn == [none |-> TRUE]

NoCfg == [none |-> TRUE]

\* sdk.SlicerCreateNodeRequest as every Deployer.Deploy fills it
CreateNodeRequest(cfg, userdata) ==
    [RamGB |-> cfg.RAMGB, CPUs |-> cfg.VCPU, Userdata |-> userdata,
     Tags |-> IF Len(cfg.Tags) > 0 THEN cfg.Tags ELSE <<>>]

CreateCall(cfg, userdata) ==
    [call |-> "CreateNode", hostGroup |-> cfg.HostGroup, hostname |-> 0,
     req |-> CreateNodeRequest(cfg, userdata)]

ListCall(hostGroup) ==
    [call |-> "GetHostGroupNodes", hostGroup |-> hostGroup, hostname |-> 0,
     req |-> NoReq]

DeleteCall(hostGroup, hostname) ==
    [call |-> "DeleteVM", hostGroup |-> hostGroup, hostname |-> hostname,
     req |-> NoReq]

LogsCall(hostname) ==
    [call |-> "GetVMLogs", hostGroup |-> "", hostname |-> hostname,
     req |-> NoReq]

\* a deploy target's run: its error ("" is nil), the remote calls it made in
\* order, whether its CreateNode succeeded, the configuration it resolved and
\* what it hands back
Plan(err, calls, create, cfg, resp) ==
    [err |-> err, calls |-> calls, create |-> create, cfg |-> cfg, resp |-> resp]

NoResp == [none |-> TRUE]

\* a detection that keeps the last tagged node (a loop without its break)
firstTagged_Last(nodes, tag) ==
    LET at == {i \in 1..Len(nodes) : hasTag(nodes[i].Tags, tag)}
    IN  IF at = {} THEN 0 ELSE CHOOSE i \in at : \A k \in at : k <= i

RECURSIVE firstTaggedFrom(_, _, _)
\* "Find first ... VM": position of the first node carrying tag, 0 if none
firstTaggedFrom(nodes, tag, i) ==
    IF i > Len(nodes) THEN 0
    ELSE IF hasTag(nodes[i].Tags, tag) THEN i
    ELSE firstTaggedFrom(nodes, tag, i + 1)

firstTagged(nodes, tag) == firstTaggedFrom(nodes, tag, 1)

(***************************************************************************)
(* Deployer.Deploy of the workloads without dependencies.                  *)
(***************************************************************************)
\* buildkit / k3s control plane / rustfs: the embedded script as is
ScriptDeploy(w, cfg, createOk) ==
    LET calls == << CreateCall(cfg, [template |-> w]) >>
    IN  IF createOk THEN Plan("", calls, TRUE, cfg, NoResp)
        ELSE Plan("CreateNode failed", calls, FALSE, cfg, NoResp)

\* Credentials that hand the user name back as the password
PostgresCredentials_Swapped(dbName, dbUser, password) ==
    [DBName |-> dbName, DBUser |-> dbUser, DBPass |-> dbUser]

\* the Credentials of the DeployResponse
PostgresCredentials(dbName, dbUser, password) ==
    [DBName |-> dbName, DBUser |-> dbUser, DBPass |-> password]

\* postgres Deployer.Deploy
PostgresDeployerDeploy(cfg, rnd, createOk) ==
    LET gen      == IF cfg.DBPass = "" THEN GeneratePassword(PasswordLength, rnd)
                    ELSE [s |-> cfg.DBPass, err |-> ""]
        password == gen.s
        dbName   == IF cfg.DBName = "" THEN DefaultDBName ELSE cfg.DBName
        dbUser   == IF cfg.DBUser = "" THEN DefaultDBUser ELSE cfg.DBUser
        userdata == [template |-> "postgres", dbName |-> dbName,
                     dbUser |-> dbUser, password |-> password]
        calls    == << CreateCall(cfg, userdata) >>
    IN  IF gen.err # "" THEN Plan("failed to generate password", <<>>, FALSE, cfg, NoResp)
        ELSE IF ~createOk THEN Plan("CreateNode failed", calls, FALSE, cfg, NoResp)
        ELSE Plan("", calls, TRUE, cfg,
                  [Credentials |-> PostgresCredentials(dbName, dbUser, password)])

\* mage postgres:deploy
PostgresDeployTarget(e, in, rnd, createOk) ==
    LET c0  == PostgresDefaultConfig(e)
        c1  == IF in.POSTGRES_DB # "" THEN [c0 EXCEPT !.DBName = in.POSTGRES_DB] ELSE c0
        c2  == IF in.POSTGRES_USER # "" THEN [c1 EXCEPT !.DBUser = in.POSTGRES_USER] ELSE c1
        cfg == IF in.POSTGRES_PASSWORD # "" THEN [c2 EXCEPT !.DBPass = in.POSTGRES_PASSWORD] ELSE c2
    IN  PostgresDeployerDeploy(cfg, rnd, createOk)

\* mage k3s:deployAgent: URL from the kubeconfig, token from the cluster secret
AgentDeployTarget(e, outcome) ==
    LET c0  == DefaultAgentConfig(e)
        cfg == [c0 EXCEPT !.K3sURL = "https://192.168.137.2:6443", !.K3sToken = "K10token"]
        userdata == [template |-> "k3s-agent", k3sURL |-> cfg.K3sURL, k3sToken |-> cfg.K3sToken]
        calls == << CreateCall(cfg, userdata) >>
    IN  IF outcome = "no-url" THEN Plan("failed to get K3s URL from kubeconfig", <<>>, FALSE, c0, NoResp)
        ELSE IF outcome = "no-token" THEN Plan("failed to get secret", <<>>, FALSE, c0, NoResp)
        ELSE IF outcome = "create-fails" THEN Plan("CreateNode failed", calls, FALSE, cfg, NoResp)
        ELSE Plan("", calls, TRUE, cfg, NoResp)

(***************************************************************************)
(* mage gitea:deploy and mage runner:deploy: dependency auto-detection.    *)
(***************************************************************************)
\* a gitea:deploy that goes on without GITEA_DB_PASS
giteaDBPassMissing_Never(in) == FALSE

\* "GITEA_DB_PASS environment variable is required"
giteaDBPassMissing(in) == in.GITEA_DB_PASS = ""

\* mage gitea:deploy.  in: the GITEA_* variables; fail: the remote call that
\* fails, if any
GiteaDeployTarget(list, e, in, fail) ==
    LET c0       == GiteaDefaultConfig(e)
        autoDB   == in.GITEA_DB_HOST = ""
        pgGroup  == PostgresDefaultConfig(e).HostGroup
        pgNodes  == GetHostGroupNodes(list, pgGroup)
        pgAt     == firstTagged(pgNodes, "postgres")
        dbHost   == IF ~autoDB THEN in.GITEA_DB_HOST
                    ELSE IF pgAt = 0 THEN ""
                    ELSE StripCIDR(pgNodes[pgAt].IP)
        callsDB  == IF autoDB THEN << ListCall(pgGroup) >> ELSE <<>>
        autoS3   == in.GITEA_S3_ENDPOINT = ""
        rfGroup  == RustfsDefaultConfig(e).HostGroup
        rfNodes  == GetHostGroupNodes(list, rfGroup)
        rfAt     == firstTagged(rfNodes, "rustfs")
        s3End    == IF ~autoS3 THEN in.GITEA_S3_ENDPOINT
                    ELSE IF rfAt = 0 THEN ""
                    ELSE StripCIDR(rfNodes[rfAt].IP) \o ":9000"
        callsS3  == callsDB \o (IF autoS3 THEN << ListCall(rfGroup) >> ELSE <<>>)
        c1       == [c0 EXCEPT !.DBHost = dbHost]
        c2       == [c1 EXCEPT !.DBPass = in.GITEA_DB_PASS]
        c3       == [c2 EXCEPT !.S3Endpoint = s3End]
        cfg      == [c3 EXCEPT !.S3AccessKey = in.GITEA_S3_ACCESS_KEY,
                               !.S3SecretKey = in.GITEA_S3_SECRET_KEY]
        userdata == [template |-> "gitea", config |-> cfg]
        callsAll == callsS3 \o << CreateCall(cfg, userdata) >>
    IN  IF autoDB /\ fail = "list-postgres"
        THEN Plan("failed to list postgres nodes", callsDB, FALSE, c0, NoResp)
        ELSE IF dbHost = ""
        THEN Plan("no postgres VM found", callsDB, FALSE, c0, NoResp)
        ELSE IF giteaDBPassMissing(in)
        THEN Plan("GITEA_DB_PASS environment variable is required", callsDB, FALSE, c1, NoResp)
        ELSE IF autoS3 /\ fail = "list-rustfs"
        THEN Plan("failed to list rustfs nodes", callsS3, FALSE, c2, NoResp)
        ELSE IF s3End = ""
        THEN Plan("no rustfs VM found", callsS3, FALSE, c2, NoResp)
        ELSE IF in.GITEA_S3_ACCESS_KEY = ""
        THEN Plan("GITEA_S3_ACCESS_KEY environment variable is required", callsS3, FALSE, c3, NoResp)
        ELSE IF in.GITEA_S3_SECRET_KEY = ""
        THEN Plan("GITEA_S3_SECRET_KEY environment variable is required", callsS3, FALSE, c3, NoResp)
        ELSE IF fail = "create"
        THEN Plan("failed to deploy gitea", callsAll, FALSE, cfg, NoResp)
        ELSE Plan("", callsAll, TRUE, cfg, NoResp)

\* a runner:deploy that goes on without RUNNER_TOKEN
runnerTokenMissing_Never(in) == FALSE

\* "RUNNER_TOKEN environment variable is required"
runnerTokenMissing(in) == in.RUNNER_TOKEN = ""

\* mage runner:deploy.  in: GITEA_URL and RUNNER_TOKEN
RunnerDeployTarget(list, e, in, fail) ==
    LET c0       == RunnerDefaultConfig(e)
        auto     == in.GITEA_URL = ""
        gtGroup  == GiteaDefaultConfig(e).HostGroup
        gtNodes  == GetHostGroupNodes(list, gtGroup)
        gtAt     == firstTagged(gtNodes, "gitea")
        giteaURL == IF ~auto THEN in.GITEA_URL
                    ELSE IF gtAt = 0 THEN ""
                    ELSE "http://" \o StripCIDR(gtNodes[gtAt].IP) \o ":3000"
        callsURL == IF auto THEN << ListCall(gtGroup) >> ELSE <<>>
        c1       == [c0 EXCEPT !.GiteaURL = giteaURL]
        cfg      == [c1 EXCEPT !.RunnerToken = in.RUNNER_TOKEN]
        userdata == [template |-> "runner", config |-> cfg]
        callsAll == callsURL \o << CreateCall(cfg, userdata) >>
    IN  IF auto /\ fail = "list-gitea"
        THEN Plan("failed to list gitea nodes", callsURL, FALSE, c0, NoResp)
        ELSE IF giteaURL = ""
        THEN Plan("no gitea VM found", callsURL, FALSE, c0, NoResp)
        ELSE IF runnerTokenMissing(in)
        THEN Plan("RUNNER_TOKEN environment variable is required", callsURL, FALSE, c1, NoResp)
        ELSE IF fail = "create"
        THEN Plan("failed to deploy runner", callsAll, FALSE, cfg, NoResp)
        ELSE Plan("", callsAll, TRUE, cfg, NoResp)

(***************************************************************************)
(* Inputs of the targets.                                                  *)
(***************************************************************************)
\* SLICER_HOST_GROUP, K3S_CP_HOST_GROUP, K3S_AGENT_HOST_GROUP of a run
EnvChoices ==
    { [SLICER_HOST_GROUP |-> "", K3S_CP_HOST_GROUP |-> "", K3S_AGENT_HOST_GROUP |-> ""],
      [SLICER_HOST_GROUP |-> "lab", K3S_CP_HOST_GROUP |-> "", K3S_AGENT_HOST_GROUP |-> "agents"] }

GiteaEnvAll ==
    [GITEA_DB_HOST : {"", "10.1.1.9"}, GITEA_DB_PASS : {"", "dbpass"},
     GITEA_S3_ENDPOINT : {"", "10.1.1.8:9000"},
     GITEA_S3_ACCESS_KEY : {"", "access"}, GITEA_S3_SECRET_KEY : {"", "secret"}]

GiteaEnvSmall ==
    { in \in GiteaEnvAll :
        /\ in.GITEA_S3_ACCESS_KEY # "" /\ in.GITEA_S3_SECRET_KEY # ""
        /\ in.GITEA_S3_ENDPOINT # ""
        /\ (in.GITEA_DB_HOST = "" => in.GITEA_DB_PASS # "") }

RunnerEnvAll ==
    [GITEA_URL : {"", "http://git.example:3000"}, RUNNER_TOKEN : {"", "token"}]

RunnerEnvSmall == { in \in RunnerEnvAll : in.GITEA_URL # "" }

PostgresEnvAll ==
    [POSTGRES_DB : {"", "mydb"}, POSTGRES_USER : {"", "me"},
     POSTGRES_PASSWORD : {"", "hunter2"}]

PostgresEnvSmall ==
    { in \in PostgresEnvAll : in.POSTGRES_DB = "" /\ in.POSTGRES_USER = "" }

\* random sources: a stream of draws, failing at draw failAt (-1: never)
RandSmall ==
    { [seed |-> 0, step |-> 1, failAt |-> -1], [seed |-> 0, step |-> 1, failAt |-> 3] }

(***************************************************************************)
(* The targets as actions.                                                 *)
(***************************************************************************)
Report(op, wl, host, err, created, removed, out, in, cfg, calls, resp) ==
    [op |-> op, wl |-> wl, host |-> host, err |-> err, created |-> created,
     removed |-> removed, out |-> out, in |-> in, cfg |-> cfg, calls |-> calls,
     resp |-> resp]

InitLast == Report("init", "", 0, "", 0, <<>>, <<>>, NoIn, NoCfg, <<>>, NoResp)

\* a deploy target ran as plan says; a successful CreateNode adds the VM
Deployed(w, plan, in, bound) ==
    /\ nextId < bound
    /\ vms' = IF plan.create
              THEN CreateNode(vms, nextId + 1, plan.cfg.HostGroup,
                              plan.calls[Len(plan.calls)].req, w)
              ELSE vms
    /\ nextId' = IF plan.create THEN nextId + 1 ELSE nextId
    /\ last' = Report("deploy", w, 0, plan.err,
                      IF plan.create THEN nextId + 1 ELSE 0,
                      <<>>, <<>>, in, plan.cfg, plan.calls, plan.resp)
    /\ UNCHANGED <<env, arg, ret, cluster, run>>

BuildkitDeploy(bound) ==
    \E ok \in BOOLEAN :
        Deployed("buildkit", ScriptDeploy("buildkit", BuildkitDefaultConfig(env), ok),
                 NoIn, bound)

RustfsDeploy(bound) ==
    \E ok \in BOOLEAN :
        Deployed("rustfs", ScriptDeploy("rustfs", RustfsDefaultConfig(env), ok),
                 NoIn, bound)

K3sDeployCP(bound) ==
    \E ok \in BOOLEAN :
        Deployed("k3s-cp", ScriptDeploy("k3s-cp", DefaultCPConfig(env), ok),
                 NoIn, bound)

K3sDeployAgent(bound) ==
    \E outcome \in {"no-url", "no-token", "create-fails", "ok"} :
        Deployed("k3s-agent", AgentDeployTarget(env, outcome), NoIn, bound)

PostgresDeploy(bound, ins, rnds) ==
    \E in \in ins, rnd \in rnds, ok \in BOOLEAN :
        Deployed("postgres", PostgresDeployTarget(env, in, rnd, ok), in, bound)

GiteaDeploy(bound, ins, fails) ==
    \E in \in ins, fail \in fails :
        Deployed("gitea", GiteaDeployTarget(vms, env, in, fail), in, bound)

RunnerDeploy(bound, ins, fails) ==
    \E in \in ins, fail \in fails :
        Deployed("runner", RunnerDeployTarget(vms, env, in, fail), in, bound)

\* mage <w>:list
List(w) ==
    \E ok \in BOOLEAN :
        LET cfg   == DefaultConfigOf(w, env)
            nodes == GetHostGroupNodes(vms, cfg.HostGroup)
        IN  /\ last' = IF ok
                       THEN Report("list", w, 0, "", 0, <<>>,
                                   printNodeList(nodes, ListTag(w), ListLabel(w)),
                                   NoIn, cfg, << ListCall(cfg.HostGroup) >>, NoResp)
                       ELSE Report("list", w, 0, "failed to list nodes", 0, <<>>, <<>>,
                                   NoIn, cfg, << ListCall(cfg.HostGroup) >>, NoResp)
            /\ UNCHANGED <<env, vms, nextId, arg, ret, cluster, run>>

\* a Delete that always addresses the default host group
DeleteHostGroup_Default(cfg) == DefaultHostGroup

\* Deployer.Delete as it addresses the orchestrator: the host group of the
\* configuration and the hostname given
DeleteHostGroup(cfg) == cfg.HostGroup

\* mage <w>:delete <hostname>
Delete(w, hostname) ==
    LET cfg   == DefaultConfigOf(w, env)
        group == DeleteHostGroup(cfg)
        found == VMExists(vms, group, hostname)
        after == IF found THEN DeleteVM(vms, group, hostname) ELSE vms
        gone  == SelectSeq(vms, LAMBDA v : ~ \E i \in 1..Len(after) : after[i] = v)
    IN  /\ vms' = after
        /\ last' = Report("delete", w, hostname,
                          IF found THEN "" ELSE "failed to delete VM",
                          0, gone, <<>>, NoIn, cfg,
                          << DeleteCall(group, hostname) >>, NoResp)
        /\ UNCHANGED <<env, nextId, arg, ret, cluster, run>>

\* mage <w>:logs <hostname>: client.GetVMLogs(hostname, 50), the serial console
\* of the VM of that name
Logs(w, hostname) ==
    LET cfg   == DefaultConfigOf(w, env)
        named == SelectSeq(vms, LAMBDA v : v.Hostname = hostname)
    IN  /\ last' = Report("logs", w, hostname,
                          IF Len(named) > 0 THEN "" ELSE "failed to get logs",
                          0, <<>>,
                          IF Len(named) > 0
                          THEN << [kind |-> "logs", Hostname |-> named[1].Hostname,
                                   Tags |-> named[1].Tags] >>
                          ELSE <<>>,
                          NoIn, cfg, << LogsCall(hostname) >>, NoResp)
        /\ UNCHANGED <<env, vms, nextId, arg, ret, cluster, run>>

NoArg == [none |-> TRUE]

\* no provisioner operation in progress
NoRun == [none |-> TRUE]

\* a cluster nothing was installed in, an empty Helm repo file, no VM objects
InitCluster ==
    [repos |-> {}, releases |-> {}, secret |-> FALSE, roleDelete |-> FALSE,
     xvms |-> <<>>]

NoRet == [none |-> TRUE]

(***************************************************************************)
(* Spec: the lifecycle of the VMs of the six workloads (and rustfs).       *)
(***************************************************************************)
Init ==
    /\ env \in EnvChoices
    /\ vms = <<>>
    /\ nextId = 0
    /\ last = InitLast
    /\ arg = NoArg
    /\ ret = NoRet
    /\ cluster = InitCluster
    /\ run = NoRun

Next ==
    \/ BuildkitDeploy(MaxVMs)
    \/ RustfsDeploy(MaxVMs)
    \/ K3sDeployCP(MaxVMs)
    \/ K3sDeployAgent(MaxVMs)
    \/ PostgresDeploy(MaxVMs, PostgresEnvSmall, RandSmall)
    \/ GiteaDeploy(MaxVMs, GiteaEnvSmall, {"none", "create"})
    \/ RunnerDeploy(MaxVMs, RunnerEnvSmall, {"none", "create"})
    \/ \E w \in Workloads : List(w)
    \/ \E w \in Workloads, h \in 1..MaxVMs : Delete(w, h)
    \/ \E w \in Workloads, h \in 1..MaxVMs : Logs(w, h)

Spec == Init /\ [][Next]_vars

(***************************************************************************)
(* SpecDeps: gitea and runner deploys with every combination of their      *)
(* variables, next to the workloads they look for.                         *)
(***************************************************************************)
InitDeps ==
    /\ Init
    /\ env.SLICER_HOST_GROUP = ""

NextDeps ==
    \/ RustfsDeploy(MaxDepVMs)
    \/ PostgresDeploy(MaxDepVMs, PostgresEnvSmall, RandSmall)
    \/ GiteaDeploy(MaxDepVMs, GiteaEnvAll,
                   {"none", "list-postgres", "list-rustfs", "create"})
    \/ RunnerDeploy(MaxDepVMs, RunnerEnvAll, {"none", "list-gitea", "create"})
    \/ \E h \in 1..MaxDepVMs : Delete("postgres", h)

SpecDeps == InitDeps /\ [][NextDeps]_vars

(***************************************************************************)
(* Userdata templating.  A request's Userdata is kept as the template's    *)
(* name and the values substituted; RenderUserdata is the script text.     *)
(***************************************************************************)
RECURSIVE ItoaNat(_)
ItoaNat(n) ==
    IF n < 10 THEN SubSeq("0123456789", n + 1, n + 1)
    ELSE ItoaNat(n \div 10) \o SubSeq("0123456789", (n % 10) + 1, (n % 10) + 1)

\* fmt.Sprintf("%d", n)
Itoa(n) == IF n < 0 THEN "-" \o ItoaNat(-n) ELSE ItoaNat(n)

\* the placeholder lines of the embedded scripts
giteaTemplate ==
    "DB_HOST=\"{{DB_HOST}}\"\nDB_PORT=\"{{DB_PORT}}\"\nDB_NAME=\"{{DB_NAME}}\"\nDB_USER=\"{{DB_USER}}\"\nDB_PASS=\"{{DB_PASS}}\"\n"
    \o "S3_ENDPOINT=\"{{S3_ENDPOINT}}\"\nS3_ACCESS_KEY=\"{{S3_ACCESS_KEY}}\"\nS3_SECRET_KEY=\"{{S3_SECRET_KEY}}\"\nS3_BUCKET=\"{{S3_BUCKET}}\"\nS3_USE_SSL=\"{{S3_USE_SSL}}\"\n"

postgresTemplate ==
    "POSTGRES_DB=\"{{POSTGRES_DB}}\"\nPOSTGRES_USER=\"{{POSTGRES_USER}}\"\nPOSTGRES_PASSWORD=\"{{POSTGRES_PASSWORD}}\"\n"

runnerTemplate ==
    "GITEA_URL=\"{{GITEA_URL}}\"\nRUNNER_TOKEN=\"{{RUNNER_TOKEN}}\"\nRUNNER_NAME=\"{{RUNNER_NAME}}\"\nRUNNER_LABELS=\"{{RUNNER_LABELS}}\"\nRUNNER_VERSION=\"{{RUNNER_VERSION}}\"\n"

agentTemplate ==
    "K3S_URL=\"{{K3S_URL}}\"\nK3S_TOKEN=\"{{K3S_TOKEN}}\"\n"

\* the (placeholder, value) pairs in the order the code replaces them
GiteaPlaceholders(config) ==
    << <<"{{DB_HOST}}", config.DBHost>>,
       <<"{{DB_PORT}}", Itoa(config.DBPort)>>,
       <<"{{DB_NAME}}", config.DBName>>,
       <<"{{DB_USER}}", config.DBUser>>,
       <<"{{DB_PASS}}", config.DBPass>>,
       <<"{{S3_ENDPOINT}}", config.S3Endpoint>>,
       <<"{{S3_ACCESS_KEY}}", config.S3AccessKey>>,
       <<"{{S3_SECRET_KEY}}", config.S3SecretKey>>,
       <<"{{S3_BUCKET}}", config.S3Bucket>>,
       <<"{{S3_USE_SSL}}", IF config.S3UseSSL THEN "true" ELSE "false">> >>

PostgresPlaceholders(dbName, dbUser, password) ==
    << <<"{{POSTGRES_DB}}", dbName>>,
       <<"{{POSTGRES_USER}}", dbUser>>,
       <<"{{POSTGRES_PASSWORD}}", password>> >>

RunnerPlaceholders(config) ==
    << <<"{{GITEA_URL}}", config.GiteaURL>>,
       <<"{{RUNNER_TOKEN}}", config.RunnerToken>>,
       <<"{{RUNNER_NAME}}", config.RunnerName>>,
       <<"{{RUNNER_LABELS}}", config.Labels>>,
       <<"{{RUNNER_VERSION}}", config.Version>> >>

AgentPlaceholders(k3sURL, k3sToken) ==
    << <<"{{K3S_URL}}", k3sURL>>, <<"{{K3S_TOKEN}}", k3sToken>> >>

RECURSIVE ReplaceEach(_, _, _)
\* userdata = strings.ReplaceAll(userdata, key, value), one pair after another
ReplaceEach(userdata, pairs, k) ==
    IF k > Len(pairs) THEN userdata
    ELSE ReplaceEach(ReplaceAll(userdata, pairs[k][1], pairs[k][2]), pairs, k + 1)

\* gitea generateUserdata
giteaGenerateUserdata(config) ==
    ReplaceEach(giteaTemplate, GiteaPlaceholders(config), 1)

\* postgres generateUserdata
postgresGenerateUserdata(dbName, dbUser, password) ==
    ReplaceEach(postgresTemplate, PostgresPlaceholders(dbName, dbUser, password), 1)

\* runner generateUserdata
runnerGenerateUserdata(config) ==
    ReplaceEach(runnerTemplate, RunnerPlaceholders(config), 1)

\* k3s.PrepareAgentUserdata
PrepareAgentUserdata(k3sURL, k3sToken) ==
    ReplaceEach(agentTemplate, AgentPlaceholders(k3sURL, k3sToken), 1)

\* the script text of a request's Userdata
RenderUserdata(u) ==
    CASE u.template = "gitea"     -> giteaGenerateUserdata(u.config)
      [] u.template = "postgres"  -> postgresGenerateUserdata(u.dbName, u.dbUser, u.password)
      [] u.template = "runner"    -> runnerGenerateUserdata(u.config)
      [] u.template = "k3s-agent" -> PrepareAgentUserdata(u.k3sURL, u.k3sToken)

\* the template and the pairs of a request's Userdata
TemplateOf(u) ==
    CASE u.template = "gitea"     -> giteaTemplate
      [] u.template = "postgres"  -> postgresTemplate
      [] u.template = "runner"    -> runnerTemplate
      [] u.template = "k3s-agent" -> agentTemplate

PlaceholdersOf(u) ==
    CASE u.template = "gitea"     -> GiteaPlaceholders(u.config)
      [] u.template = "postgres"  -> PostgresPlaceholders(u.dbName, u.dbUser, u.password)
      [] u.template = "runner"    -> RunnerPlaceholders(u.config)
      [] u.template = "k3s-agent" -> AgentPlaceholders(u.k3sURL, u.k3sToken)

(***************************************************************************)
(* SpecTpl: the four templaters on configurations whose values may         *)
(* themselves hold placeholder text.                                       *)
(***************************************************************************)
GiteaValues == {"", "10.1.1.9", "{{DB_PASS}}", "{{S3_BUCKET}}"}

PostgresValues == {"app", "", "{{POSTGRES_PASSWORD}}", "{{POSTGRES_DB}}"}

RunnerValues == {"", "token", "{{RUNNER_NAME}}"}

AgentValues == {"", "https://192.168.137.2:6443", "{{K3S_TOKEN}}", "{{K3S_URL}}"}

TplInputs ==
    { [template |-> "gitea",
       config |-> [GiteaDefaultConfig(e) EXCEPT !.DBHost = h, !.DBPass = p,
                                                !.S3Bucket = b, !.S3UseSSL = ssl]] :
        e \in EnvChoices, h \in GiteaValues, p \in GiteaValues,
        b \in GiteaValues \ {""}, ssl \in BOOLEAN }
    \cup
    { [template |-> "postgres", dbName |-> n, dbUser |-> u, password |-> p] :
        n \in PostgresValues, u \in PostgresValues, p \in PostgresValues }
    \cup
    { [template |-> "runner",
       config |-> [RunnerDefaultConfig(e) EXCEPT !.GiteaURL = g, !.RunnerToken = t,
                                                 !.RunnerName = n]] :
        e \in EnvChoices, g \in RunnerValues, t \in RunnerValues, n \in RunnerValues }
    \cup
    { [template |-> "k3s-agent", k3sURL |-> u, k3sToken |-> t] :
        u \in AgentValues, t \in AgentValues }

PureInit(inputs) ==
    /\ env \in {e \in EnvChoices : e.SLICER_HOST_GROUP = ""}
    /\ vms = <<>>
    /\ nextId = 0
    /\ last = InitLast
    /\ arg \in inputs
    /\ ret = NoRet
    /\ cluster = InitCluster
    /\ run = NoRun

\* apply the function under check to arg, once
Returns(value) ==
    /\ ret = NoRet
    /\ ret' = value
    /\ UNCHANGED <<env, vms, nextId, last, arg, cluster, run>>

GiteaGenerate ==
    /\ arg.template = "gitea"
    /\ Returns([text |-> giteaGenerateUserdata(arg.config)])

PostgresGenerate ==
    /\ arg.template = "postgres"
    /\ Returns([text |-> postgresGenerateUserdata(arg.dbName, arg.dbUser, arg.password)])

RunnerGenerate ==
    /\ arg.template = "runner"
    /\ Returns([text |-> runnerGenerateUserdata(arg.config)])

AgentPrepare ==
    /\ arg.template = "k3s-agent"
    /\ Returns([text |-> PrepareAgentUserdata(arg.k3sURL, arg.k3sToken)])

InitTpl == PureInit(TplInputs)

NextTpl == GiteaGenerate \/ PostgresGenerate \/ RunnerGenerate \/ AgentPrepare

SpecTpl == InitTpl /\ [][NextTpl]_vars

(***************************************************************************)
(* SpecTag: hasTag and printNodeList on every short node list.             *)
(***************************************************************************)
MaxNodes == 2

TagLists ==
    { <<>>, <<"k3s">>, <<"k3s-cp">>, <<"k3s", "k3s-cp">>, <<"k3s-cp", "k3s">>,
      <<"K3S">>, <<"k3">>, <<"xk3s">> }

TagsAsked == {"k3s", "k3s-cp"}

\* the node lists of a length: node i is the i-th VM of the host group
NodeLists(len) ==
    { [i \in 1..len |-> [Hostname |-> i, IP |-> NodeIP(i), Tags |-> tl[i],
                         CreatedAt |-> i]] : tl \in [1..len -> TagLists] }

\* the IPs and tag lists of the nodes k3s:devices is run on
DeviceIPs == {"192.168.137.7/24", "192.168.137.8", "10.0.0.9/24/8"}

DeviceTagLists == { <<"k3s", "k3s-cp">>, <<"k3s", "k3s-agent">>, <<"k3s-cpx">> }

DeviceNodeLists(len) ==
    { [i \in 1..len |-> [Hostname |-> i, IP |-> ips[i], Tags |-> tl[i],
                         CreatedAt |-> i]] :
        tl \in [1..len -> DeviceTagLists], ips \in [1..len -> DeviceIPs] }

TagInputs ==
    { [fn |-> "hasTag", tags |-> tl, tag |-> t] : tl \in TagLists, t \in TagsAsked }
    \cup
    { [fn |-> "devices", nodes |-> ns] :
        ns \in UNION { DeviceNodeLists(len) : len \in 0..MaxNodes } }
    \cup
    { [fn |-> "printNodeList", nodes |-> ns, tag |-> t] :
        ns \in UNION { NodeLists(len) : len \in 0..MaxNodes }, t \in TagsAsked }

HasTag ==
    /\ arg.fn = "hasTag"
    /\ Returns([has |-> hasTag(arg.tags, arg.tag)])

PrintNodeList ==
    /\ arg.fn = "printNodeList"
    /\ Returns([out |-> printNodeList(arg.nodes, arg.tag, "K3s")])

K3sDevices ==
    /\ arg.fn = "devices"
    /\ Returns([devices |-> Devices(arg.nodes)])

InitTag == PureInit(TagInputs)

NextTag == HasTag \/ PrintNodeList \/ K3sDevices

SpecTag == InitTag /\ [][NextTag]_vars

(***************************************************************************)
(* SpecPg: postgres Deployer.Deploy on every configuration.                *)
(***************************************************************************)
PgConfigs ==
    { [PostgresDefaultConfig(e) EXCEPT !.DBName = n, !.DBUser = u, !.DBPass = p] :
        e \in EnvChoices, n \in {"", "mydb"}, u \in {"", "me"}, p \in {"", "hunter2"} }

PgRands == [seed : {0, 25}, step : {1, 7}, failAt : {-1, 5}]

PgInputs == [cfg : PgConfigs, rnd : PgRands, createOk : BOOLEAN]

PgDeploy ==
    /\ arg \in PgInputs
    /\ Returns(PostgresDeployerDeploy(arg.cfg, arg.rnd, arg.createOk))

InitPg == PureInit(PgInputs)

NextPg == PgDeploy

SpecPg == InitPg /\ [][NextPg]_vars

(***************************************************************************)
(* SpecPw: GeneratePassword on short lengths and on the length Deploy asks *)
(* for, with random sources that do and do not fail.                       *)
(***************************************************************************)
MaxPwLen == 3

PwRands == [seed : {0, 25, 61}, step : {0, 1, 7}, failAt : {-1, 0, 2}]

PwInputs == [length : (0..MaxPwLen) \cup {PasswordLength}, rnd : PwRands]

Generate ==
    /\ arg \in PwInputs
    /\ Returns(GeneratePassword(arg.length, arg.rnd))

InitPw == PureInit(PwInputs)

NextPw == Generate

SpecPw == InitPw /\ [][NextPw]_vars

(***************************************************************************)
(* SpecCfg: the default configuration of every workload under every        *)
(* setting of the host group variables.                                    *)
(***************************************************************************)
CfgEnvs ==
    [SLICER_HOST_GROUP : {"", "lab", "edge"}, K3S_CP_HOST_GROUP : {"", "cp"},
     K3S_AGENT_HOST_GROUP : {"", "agents"}]

CfgInputs == [w : Workloads \cup {"rustfs"}, e : CfgEnvs]

ResolveConfig ==
    /\ arg \in CfgInputs
    /\ Returns(DefaultConfigOf(arg.w, arg.e))

InitCfg == PureInit(CfgInputs)

NextCfg == ResolveConfig

SpecCfg == InitCfg /\ [][NextCfg]_vars

(***************************************************************************)
(* SpecGw: gatewayFromCIDR on the default CIDRs and on every short string  *)
(* of digits, dots and slashes.                                            *)
(***************************************************************************)
\* cidr[i] for a 0-based i
ByteAt(cidr, i) == SubSeq(cidr, i + 1, i + 1)

RECURSIVE lastOctetFrom(_, _)
\* the inner loop: the index of the last '.' at or before j, -1 when none
lastOctetFrom(cidr, j) ==
    IF j < 0 THEN -1
    ELSE IF ByteAt(cidr, j) = "." THEN j
    ELSE lastOctetFrom(cidr, j - 1)

RECURSIVE gatewayFrom(_, _)
\* the outer loop, from index i down
gatewayFrom(cidr, i) ==
    IF i < 0 THEN cidr
    ELSE IF ByteAt(cidr, i) = "/"
         THEN LET j == lastOctetFrom(cidr, i - 1)
              IN  IF j # -1
                  THEN SubSeq(cidr, 1, j + 1) \o "1" \o SubSeq(cidr, i + 1, Len(cidr))
                  ELSE gatewayFrom(cidr, i - 1)
         ELSE gatewayFrom(cidr, i - 1)

\* a conversion that does what its comment says: replace .0/ with .1/
gatewayFromCIDR_ZeroOnly(cidr) == ReplaceAll(cidr, ".0/", ".1/")

\* k3s.gatewayFromCIDR
gatewayFromCIDR(cidr) ==
    IF Len(cidr) > 0 THEN gatewayFrom(cidr, Len(cidr) - 1) ELSE cidr

MaxCidrLen == 4

RECURSIVE CidrStrings(_)
\* the strings of a length over a digit, the dot and the slash
CidrStrings(len) ==
    IF len = 0 THEN {""}
    ELSE {s \o c : s \in CidrStrings(len - 1), c \in {"7", ".", "/"}}

GwInputs ==
    { [cidr |-> c] :
        c \in UNION { CidrStrings(len) : len \in 0..MaxCidrLen }
              \cup { DefaultCPConfig(e).CIDR : e \in EnvChoices }
              \cup { DefaultAgentConfig(e).CIDR : e \in EnvChoices }
              \cup { "192.168.138.7/24", "10.0.0.0", "10.1.0.0/16/8" } }

Gateway ==
    /\ arg \in GwInputs
    /\ Returns([gateway |-> gatewayFromCIDR(arg.cidr)])

InitGw == PureInit(GwInputs)

NextGw == Gateway

SpecGw == InitGw /\ [][NextGw]_vars

(***************************************************************************)
(* The Helm and Kubernetes provisioners.  An operation runs one remote or  *)
(* local call per step; run.steps is the calls made so far with outcomes.  *)
(***************************************************************************)
\* the charts with a Helm-based Install; each has its own repo and release
Installers == {"autoscaler", "crossplane", "cert-manager", "grafana"}

\* is the operation in progress at position pc
At(pc) == run # NoRun /\ run.pc = pc

\* may a new operation start
Idle == IF run = NoRun THEN TRUE ELSE run.pc = "done"

\* an operation at its first position
Started(target, who, pc, slicerToken) ==
    [target |-> target, who |-> who, pc |-> pc, steps |-> <<>>, err |-> "",
     warned |-> FALSE, releaseExists |-> FALSE, slicerToken |-> slicerToken]

\* r after a call with outcome out ("ok", "notfound" or "error")
Called(r, step, out) == [r EXCEPT !.steps = Append(@, [step |-> step, out |-> out])]

Goto(r, pc) == [r EXCEPT !.pc = pc]

\* an error that is noted while the operation stays at the failed call
Fail_Retry(r, err) == [r EXCEPT !.err = err]

\* return fmt.Errorf(...)
Fail(r, err) == [r EXCEPT !.pc = "done", !.err = err]

Outcome(ok) == IF ok THEN "ok" ELSE "error"

\* one step: the operation moves to r, the cluster to c
K8sStep(r, c) ==
    /\ run' = r
    /\ cluster' = c
    /\ UNCHANGED <<env, vms, nextId, last, arg, ret>>

\* a step of the shape  if err := call(); err != nil { return error }
FailStop(pc, step, next, err) ==
    /\ At(pc)
    /\ \E ok \in BOOLEAN :
           K8sStep(IF ok THEN Goto(Called(run, step, "ok"), next)
                   ELSE Fail(Called(run, step, "error"), err),
                   cluster)

\* Provisioner.Install / InstallAutoscaler called on its own
StartInstallOf(whos) ==
    /\ Idle
    /\ \E who \in whos : K8sStep(Started("install", who, "newrepo", ""), cluster)

StartInstall == StartInstallOf(Installers)

\* repo.NewChartRepository
HelmNewRepo ==
    FailStop("newrepo", "repo.new", "index", "failed to create chart repository")

\* r.DownloadIndexFile
HelmDownloadIndex ==
    FailStop("index", "repo.index", "repofile", "failed to download repo index")

\* repo.LoadFile (a file that does not load counts as empty), then, unless
\* the file has the repo, f.Update and f.WriteFile
HelmRepoFile ==
    /\ At("repofile")
    /\ \E loadOk \in BOOLEAN, writeOk \in BOOLEAN :
           LET f      == IF loadOk THEN cluster.repos ELSE {}
               loaded == Called(run, "repo.load", Outcome(loadOk))
           IN  IF run.who \in f
               THEN K8sStep(Goto(loaded, "init"), cluster)
               ELSE IF writeOk
               THEN K8sStep(Goto(Called(loaded, "repo.write", "ok"), "init"),
                            [cluster EXCEPT !.repos = f \cup {run.who}])
               ELSE K8sStep(Fail(Called(loaded, "repo.write", "error"),
                                 "failed to write repo file"), cluster)

\* actionConfig.Init
HelmInit ==
    FailStop("init", "helm.init", "history", "failed to initialize helm action config")

\* a release check that forgets the error of the history query
releaseExists_AnyHistory(ok, releases, who) == who \in releases

\* releaseExists := err == nil && len(releases) > 0
releaseExists(ok, releases, who) == ok /\ who \in releases

\* histClient.Run
HelmHistory ==
    /\ At("history")
    /\ \E ok \in BOOLEAN :
           K8sStep([Goto(Called(run, "helm.history", Outcome(ok)), "locate")
                       EXCEPT !.releaseExists =
                                  releaseExists(ok, cluster.releases, run.who)],
                   cluster)

\* chartPathOpts.LocateChart
HelmLocate == FailStop("locate", "helm.locate", "load", "failed to locate chart")

\* loader.Load
HelmLoad ==
    /\ At("load")
    /\ \E ok \in BOOLEAN :
           K8sStep(IF ok
                   THEN Goto(Called(run, "helm.load", "ok"),
                             IF run.who = "grafana" THEN "scrape" ELSE "release")
                   ELSE Fail(Called(run, "helm.load", "error"), "failed to load chart"),
                   cluster)

\* grafana only: Secrets.Get("additional-scrape-configs"); err == nil adds a
\* value, any error is passed over
GrafanaScrapeLookup ==
    /\ At("scrape")
    /\ \E out \in {"ok", "notfound", "error"} :
           K8sStep(Goto(Called(run, "k8s.scrape.get", out), "release"), cluster)

\* where a finished Helm install returns to
HelmReturned(r) ==
    Goto(r, IF r.target = "autoscalerInstall" THEN "role-get" ELSE "done")

\* upgrade.Run when releaseExists
HelmUpgrade ==
    /\ At("release")
    /\ run.releaseExists
    /\ \E ok \in BOOLEAN :
           K8sStep(IF ok THEN HelmReturned(Called(run, "helm.upgrade", "ok"))
                   ELSE Fail(Called(run, "helm.upgrade", "error"), "failed to upgrade"),
                   cluster)

\* install.Run otherwise; Helm refuses a release name already in use
HelmInstall ==
    /\ At("release")
    /\ ~ run.releaseExists
    /\ \E ok \in (IF run.who \in cluster.releases THEN {FALSE} ELSE BOOLEAN) :
           IF ok
           THEN K8sStep(HelmReturned(Called(run, "helm.install", "ok")),
                        [cluster EXCEPT !.releases = @ \cup {run.who}])
           ELSE K8sStep(Fail(Called(run, "helm.install", "error"), "failed to install"),
                        cluster)

(***************************************************************************)
(* mage k3s:autoscalerInstall and k3s:autoscalerUninstall.                 *)
(***************************************************************************)
\* the SLICER_TOKEN values of a run
SlicerTokens == {"", "slicer-token"}

StartAutoscalerInstall ==
    /\ Idle
    /\ \E token \in SlicerTokens :
           K8sStep(Started("autoscalerInstall", "autoscaler", "provisioner", token),
                   cluster)

\* k3s.NewProvisioner
AiNewProvisioner ==
    FailStop("provisioner", "k8s.client", "verify", "failed to create provisioner")

\* provisioner.VerifyClusterConnection
AiVerify == FailStop("verify", "k8s.namespace.get", "url", "cluster connection failed")

\* k3s.GetK3sURLFromKubeconfig
AiK3sURL ==
    FailStop("url", "kubeconfig.server", "token", "failed to get K3s URL from kubeconfig")

\* provisioner.GetK3sToken: the k3s-node-token secret, which may be absent
AiK3sToken ==
    /\ At("token")
    /\ \E out \in {"ok", "notfound", "error"} :
           K8sStep(IF out = "ok"
                   THEN Goto(Called(run, "k8s.tokensecret.get", out), "slicer-token")
                   ELSE Fail(Called(run, "k8s.tokensecret.get", out),
                             IF out = "notfound" THEN "secret not found"
                             ELSE "failed to get secret"),
                   cluster)

\* a target that goes on without SLICER_TOKEN
slicerTokenMissing_Never(r) == FALSE

\* is SLICER_TOKEN unset
slicerTokenMissing(r) == r.slicerToken = ""

\* "SLICER_TOKEN environment variable is required"
AiSlicerToken ==
    /\ At("slicer-token")
    /\ K8sStep(IF slicerTokenMissing(run)
               THEN Fail(run, "SLICER_TOKEN environment variable is required")
               ELSE Goto(run, "secret-get"),
               cluster)

\* CreateCloudConfigSecret: Secrets.Get, NotFound leading to Create
AiSecretGet ==
    /\ At("secret-get")
    /\ \E out \in {IF cluster.secret THEN "ok" ELSE "notfound", "error"} :
           K8sStep(IF out = "error"
                   THEN Fail(Called(run, "k8s.secret.get", out),
                             "failed to get existing secret")
                   ELSE Goto(Called(run, "k8s.secret.get", out),
                             IF out = "ok" THEN "secret-update" ELSE "secret-create"),
                   cluster)

\* CreateCloudConfigSecret: Secrets.Create
AiSecretCreate ==
    /\ At("secret-create")
    /\ \E ok \in BOOLEAN :
           IF ok
           THEN K8sStep(Goto(Called(run, "k8s.secret.create", "ok"), "newrepo"),
                        [cluster EXCEPT !.secret = TRUE])
           ELSE K8sStep(Fail(Called(run, "k8s.secret.create", "error"),
                             "failed to create secret"), cluster)

\* CreateCloudConfigSecret: Secrets.Update
AiSecretUpdate ==
    FailStop("secret-update", "k8s.secret.update", "newrepo", "failed to update secret")

\* a target that returns the error of PatchClusterRole
Warned_Fatal(r) == Fail(r, "failed to patch ClusterRole")

\* fmt.Printf("Warning: failed to patch ClusterRole: ..."), then return nil
Warned(r) == [Goto(r, "done") EXCEPT !.warned = TRUE]

\* PatchClusterRole: ClusterRoles.Get; the target only warns on its error
AiRoleGet ==
    /\ At("role-get")
    /\ \E ok \in BOOLEAN :
           K8sStep(IF ok THEN Goto(Called(run, "k8s.clusterrole.get", "ok"), "role-update")
                   ELSE Warned(Called(run, "k8s.clusterrole.get", "error")),
                   cluster)

\* PatchClusterRole: ClusterRoles.Update with the delete verb on nodes
AiRoleUpdate ==
    /\ At("role-update")
    /\ \E ok \in BOOLEAN :
           IF ok
           THEN K8sStep(Goto(Called(run, "k8s.clusterrole.update", "ok"), "done"),
                        [cluster EXCEPT !.roleDelete = TRUE])
           ELSE K8sStep(Warned(Called(run, "k8s.clusterrole.update", "error")),
                        cluster)

StartAutoscalerUninstall ==
    /\ Idle
    /\ K8sStep(Started("autoscalerUninstall", "autoscaler", "un-provisioner", ""),
               cluster)

\* k3s.NewProvisioner
AuNewProvisioner ==
    FailStop("un-provisioner", "k8s.client", "un-init", "failed to create provisioner")

\* UninstallAutoscaler: actionConfig.Init
AuInit ==
    FailStop("un-init", "helm.init", "un-run", "failed to initialize helm action config")

\* UninstallAutoscaler: uninstall.Run; Helm fails on a release that is not there
AuUninstall ==
    /\ At("un-run")
    /\ \E ok \in (IF "autoscaler" \in cluster.releases THEN BOOLEAN ELSE {FALSE}) :
           IF ok
           THEN K8sStep(Goto(Called(run, "helm.uninstall", "ok"), "un-secret"),
                        [cluster EXCEPT !.releases = @ \ {"autoscaler"},
                                        !.roleDelete = FALSE])
           ELSE K8sStep(Fail(Called(run, "helm.uninstall", "error"),
                             "failed to uninstall autoscaler"), cluster)

\* a delete that passes over every error
deleteErrorIgnored_Any(out) == TRUE

\* a delete that returns every error, NotFound too
deleteErrorIgnored_Never(out) == FALSE

\* is the error of Secrets.Delete passed over: err != nil && !IsNotFound(err)
deleteErrorIgnored(out) == out = "notfound"

\* DeleteCloudConfigSecret
AuSecretDelete ==
    /\ At("un-secret")
    /\ \E out \in {IF cluster.secret THEN "ok" ELSE "notfound", "error"} :
           IF out = "ok" \/ deleteErrorIgnored(out)
           THEN K8sStep(Goto(Called(run, "k8s.secret.delete", out), "done"),
                        [cluster EXCEPT !.secret = FALSE])
           ELSE K8sStep(Fail(Called(run, "k8s.secret.delete", out),
                             "failed to delete secret"), cluster)

(***************************************************************************)
(* SpecK8s: Helm installs, autoscalerInstall and autoscalerUninstall, one  *)
(* operation after another on one cluster.                                 *)
(***************************************************************************)
HelmSteps ==
    \/ HelmNewRepo
    \/ HelmDownloadIndex
    \/ HelmRepoFile
    \/ HelmInit
    \/ HelmHistory
    \/ HelmLocate
    \/ HelmLoad
    \/ GrafanaScrapeLookup
    \/ HelmUpgrade
    \/ HelmInstall

NextK8s ==
    \/ StartInstall
    \/ HelmSteps
    \/ StartAutoscalerInstall
    \/ AiNewProvisioner
    \/ AiVerify
    \/ AiK3sURL
    \/ AiK3sToken
    \/ AiSlicerToken
    \/ AiSecretGet
    \/ AiSecretCreate
    \/ AiSecretUpdate
    \/ AiRoleGet
    \/ AiRoleUpdate
    \/ StartAutoscalerUninstall
    \/ AuNewProvisioner
    \/ AuInit
    \/ AuUninstall
    \/ AuSecretDelete

InitK8s ==
    /\ Init
    /\ env.SLICER_HOST_GROUP = ""

SpecK8s == InitK8s /\ [][NextK8s]_vars

(***************************************************************************)
(* SpecOps: the operations that change something remote, on one            *)
(* orchestrator and one cluster: gitea deploy and delete, the grafana      *)
(* Install, autoscalerInstall and autoscalerUninstall.                     *)
(***************************************************************************)
\* gitea:deploy with everything given, and with the database to be detected
GiteaOpsEnv ==
    { in \in GiteaEnvAll :
        /\ in.GITEA_DB_PASS # "" /\ in.GITEA_S3_ENDPOINT # ""
        /\ in.GITEA_S3_ACCESS_KEY # "" /\ in.GITEA_S3_SECRET_KEY # "" }

AutoscalerSteps ==
    \/ AiNewProvisioner
    \/ AiVerify
    \/ AiK3sURL
    \/ AiK3sToken
    \/ AiSlicerToken
    \/ AiSecretGet
    \/ AiSecretCreate
    \/ AiSecretUpdate
    \/ AiRoleGet
    \/ AiRoleUpdate
    \/ AuNewProvisioner
    \/ AuInit
    \/ AuUninstall
    \/ AuSecretDelete

NextOps ==
    \/ Idle /\ GiteaDeploy(MaxVMs, GiteaOpsEnv, {"none", "list-postgres", "create"})
    \/ Idle /\ \E h \in 1..MaxVMs : Delete("gitea", h)
    \/ StartInstallOf({"grafana"})
    \/ StartAutoscalerInstall
    \/ StartAutoscalerUninstall
    \/ HelmSteps
    \/ AutoscalerSteps

SpecOps == InitK8s /\ [][NextOps]_vars

(***************************************************************************)
(* The Crossplane runner Deployer: VM objects of a cluster, by namespace.  *)
(***************************************************************************)
\* the most VM objects a cluster holds
MaxXVMs == 3

\* CROSSPLANE_NAMESPACE of a Deployer
XpNamespaceEnv == {"", "ci"}

\* namespace of DefaultConfig
XpNamespace(e) == IF e = "" THEN "default" ELSE e

\* Tags of DefaultConfig
XpDefaultTags == <<"runner", "crossplane">>

\* config.Name of a Deployer
XpConfigNames == {"", "ci-1"}

\* the clock, in seconds, when Deploy runs
XpClocks == {41, 100041, 42}

\* generateID: the seconds of the clock modulo 100000, in decimal
generateID(now) == ToString(now % 100000)

\* Deploy: name := config.Name, or "runner-" and an id when it is empty
XpName(configName, now) ==
    IF configName = "" THEN "runner-" \o generateID(now) ELSE configName

\* a VM object; labels are the label keys of its metadata, decodes says
\* whether it unmarshals into the VM struct
XpObject(name, namespace, labels, tags, decodes, by) ==
    [name |-> name, namespace |-> namespace, labels |-> labels, tags |-> tags,
     decodes |-> decodes, by |-> by]

XpExists(objs, namespace, name) ==
    \E i \in 1..Len(objs) : objs[i].namespace = namespace /\ objs[i].name = name

\* the VM handed back by unstructuredToVM
XpVM(o) == [name |-> o.name, namespace |-> o.namespace, tags |-> o.tags]

RECURSIVE XpVMs(_)
XpVMs(objs) ==
    IF objs = <<>> THEN <<>> ELSE << XpVM(Head(objs)) >> \o XpVMs(Tail(objs))

\* a step of the Deployer: the cluster's VM objects and what the call returned
XpStep(objs, result) ==
    /\ cluster' = [cluster EXCEPT !.xvms = objs]
    /\ ret' = result
    /\ UNCHANGED <<env, vms, nextId, last, arg, run>>

\* Deployer.Deploy: one Create of an object with a name and a namespace and
\* no labels; the API refuses a name in use
XpDeploy ==
    \E e \in XpNamespaceEnv, configName \in XpConfigNames, now \in XpClocks,
       ok \in BOOLEAN :
        LET ns   == XpNamespace(e)
            name == XpName(configName, now)
            obj  == XpObject(name, ns, {}, XpDefaultTags, TRUE, "deploy")
        IN  /\ Len(cluster.xvms) < MaxXVMs
            /\ IF ok /\ ~ XpExists(cluster.xvms, ns, name)
               THEN XpStep(Append(cluster.xvms, obj),
                           [op |-> "deploy", namespace |-> ns, err |-> "",
                            vms |-> << XpVM(obj) >>])
               ELSE XpStep(cluster.xvms,
                           [op |-> "deploy", namespace |-> ns,
                            err |-> "failed to create VM", vms |-> <<>>])

\* Deployer.Delete
XpDelete ==
    \E e \in XpNamespaceEnv, name \in {"ci-1", "runner-41", "runner-42"} :
        LET ns == XpNamespace(e)
        IN  IF XpExists(cluster.xvms, ns, name)
            THEN XpStep(SelectSeq(cluster.xvms,
                                  LAMBDA o : ~ (o.namespace = ns /\ o.name = name)),
                        [op |-> "delete", namespace |-> ns, err |-> "", vms |-> <<>>])
            ELSE XpStep(cluster.xvms,
                        [op |-> "delete", namespace |-> ns,
                         err |-> "failed to delete VM", vms |-> <<>>])

\* the List of the API with a selector on the existence of a label key
XpSelect(objs, namespace, label) ==
    SelectSeq(objs, LAMBDA o : o.namespace = namespace /\ label \in o.labels)

\* Deployer.List: the objects with label key crossplane.io/claim-name
XpListed(objs, namespace) == XpSelect(objs, namespace, "crossplane.io/claim-name")

\* Deployer.List: of those, the ones that decode and carry tag runner
XpList ==
    \E e \in XpNamespaceEnv, ok \in BOOLEAN :
        LET ns    == XpNamespace(e)
            items == XpListed(cluster.xvms, ns)
            kept  == SelectSeq(items, LAMBDA o : o.decodes /\ hasTag(o.tags, "runner"))
        IN  XpStep(cluster.xvms,
                   IF ok
                   THEN [op |-> "list", namespace |-> ns, err |-> "", vms |-> XpVMs(kept)]
                   ELSE [op |-> "list", namespace |-> ns,
                         err |-> "failed to list VMs", vms |-> <<>>])

\* not the Deployer: Crossplane composes a VM for a claim, which carries
\* the label crossplane.io/claim-name
XpClaimComposed ==
    \E e \in XpNamespaceEnv, tags \in {<<"runner">>, <<"k3s-cp">>},
       decodes \in BOOLEAN :
        LET ns == XpNamespace(e)
        IN  /\ Len(cluster.xvms) < MaxXVMs
            /\ ~ XpExists(cluster.xvms, ns, "claimed")
            /\ (~ decodes => tags = <<"runner">>)
            /\ cluster' = [cluster EXCEPT !.xvms =
                   Append(@, XpObject("claimed", ns, {"crossplane.io/claim-name"},
                                      tags, decodes, "claim"))]
            /\ UNCHANGED <<env, vms, nextId, last, arg, ret, run>>

NextXp == XpDeploy \/ XpDelete \/ XpList \/ XpClaimComposed

SpecXp == InitK8s /\ [][NextXp]_vars

(***************************************************************************)
(* The cloud-config of the autoscaler, as k3s:autoscalerConfig prints it   *)
(* and as k3s:autoscalerInstall stores it.                                 *)
(***************************************************************************)
\* DefaultSimplifiedConfig
DefaultSimplifiedConfig ==
    [K3sURL |-> "", K3sToken |-> "", SlicerURL |-> "", SlicerToken |-> "",
     NodeGroupName |-> "api", MinSize |-> 0, MaxSize |-> 10]

\* GenerateSimplifiedCloudConfig
GenerateSimplifiedCloudConfig(config) ==
    "[global]\nk3s-url=" \o config.K3sURL
    \o "\nk3s-token=" \o config.K3sToken
    \o "\ndefault-min-size=" \o ToString(config.MinSize)
    \o "\ndefault-max-size=" \o ToString(config.MaxSize)
    \o "\n\n[nodegroup \"" \o config.NodeGroupName
    \o "\"]\nslicer-url=" \o config.SlicerURL
    \o "\nslicer-token=" \o config.SlicerToken
    \o "\nmin-size=" \o ToString(config.MinSize)
    \o "\nmax-size=" \o ToString(config.MaxSize) \o "\n"

\* the value of a decimal digit, -1 for any other character
DigitOf(c) ==
    CASE c = "0" -> 0 [] c = "1" -> 1 [] c = "2" -> 2 [] c = "3" -> 3
      [] c = "4" -> 4 [] c = "5" -> 5 [] c = "6" -> 6 [] c = "7" -> 7
      [] c = "8" -> 8 [] c = "9" -> 9 [] OTHER -> -1

RECURSIVE DigitsFrom(_, _, _)
\* the number read from the digits of s at i and after, acc being the
\* number read so far
DigitsFrom(s, i, acc) ==
    IF i > Len(s) \/ DigitOf(SubSeq(s, i, i)) < 0 THEN acc
    ELSE DigitsFrom(s, i + 1, 10 * acc + DigitOf(SubSeq(s, i, i)))

\* fmt.Sscanf(s, "%d", &v): v becomes the number s starts with, and stays
\* old when s does not start with one
Sscanf(s, old) ==
    LET signed == Len(s) > 0 /\ SubSeq(s, 1, 1) \in {"-", "+"}
        first  == IF signed THEN 2 ELSE 1
    IN  IF first > Len(s) \/ DigitOf(SubSeq(s, first, first)) < 0 THEN old
        ELSE IF signed /\ SubSeq(s, 1, 1) = "-" THEN 0 - DigitsFrom(s, first, 0)
        ELSE DigitsFrom(s, first, 0)

\* with SLICER_URL, the default when it is empty
SlicerURLOf(e) == IF e.SLICER_URL = "" THEN "http://127.0.0.1:8080" ELSE e.SLICER_URL

\* what a target came to: its error ("" is nil) and the cloud-config text
CloudConfigOutcome(err, text) == [err |-> err, text |-> text]

\* K3s.AutoscalerConfig under environment e on cluster c: the text it prints
AutoscalerConfig(e, c) ==
    LET c1 == [DefaultSimplifiedConfig EXCEPT !.K3sURL = c.url, !.K3sToken = c.token,
                                              !.SlicerURL = SlicerURLOf(e),
                                              !.SlicerToken = e.SLICER_TOKEN]
        c2 == IF e.K3S_NODEGROUP # "" THEN [c1 EXCEPT !.NodeGroupName = e.K3S_NODEGROUP]
              ELSE c1
        c3 == IF e.K3S_MIN_SIZE # ""
              THEN [c2 EXCEPT !.MinSize = Sscanf(e.K3S_MIN_SIZE, c2.MinSize)] ELSE c2
        c4 == IF e.K3S_MAX_SIZE # ""
              THEN [c3 EXCEPT !.MaxSize = Sscanf(e.K3S_MAX_SIZE, c3.MaxSize)] ELSE c3
    IN  IF c.fault = "kubeconfig"
        THEN CloudConfigOutcome("failed to get K3s URL from kubeconfig", "")
        ELSE IF c.fault = "token"
        THEN CloudConfigOutcome("secret not found", "")
        ELSE IF e.SLICER_TOKEN = ""
        THEN CloudConfigOutcome("SLICER_TOKEN environment variable is required", "")
        ELSE CloudConfigOutcome("", GenerateSimplifiedCloudConfig(c4))

\* K3s.AutoscalerInstall under environment e on cluster c: the text it hands
\* to CreateCloudConfigSecret
AutoscalerInstallConfig(e, c) ==
    LET c1 == [DefaultSimplifiedConfig EXCEPT !.K3sURL = c.url, !.K3sToken = c.token,
                                              !.SlicerURL = SlicerURLOf(e),
                                              !.SlicerToken = e.SLICER_TOKEN]
        c2 == IF e.K3S_NODEGROUP # "" THEN [c1 EXCEPT !.NodeGroupName = e.K3S_NODEGROUP]
              ELSE c1
    IN  IF c.fault = "kubeconfig"
        THEN CloudConfigOutcome("failed to get K3s URL from kubeconfig", "")
        ELSE IF c.fault = "token"
        THEN CloudConfigOutcome("secret not found", "")
        ELSE IF e.SLICER_TOKEN = ""
        THEN CloudConfigOutcome("SLICER_TOKEN environment variable is required", "")
        ELSE CloudConfigOutcome("", GenerateSimplifiedCloudConfig(c2))

\* environments of the two targets
CloudConfigEnvs ==
    [SLICER_URL : {"", "http://slicer:8080"}, SLICER_TOKEN : {"", "slicer-token"},
     K3S_NODEGROUP : {"", "agents"}, K3S_MIN_SIZE : {"", "0", "2", "x"},
     K3S_MAX_SIZE : {"", "10", "-3", "4x"}]

\* clusters: the server of the kubeconfig, the k3s-node-token secret, and
\* what cannot be read
CloudConfigClusters ==
    [url : {"https://192.168.137.7:6443"}, token : {"K10token"},
     fault : {"none", "kubeconfig", "token"}]

CloudConfigInputs == [e : CloudConfigEnvs, c : CloudConfigClusters]

NoOutcome == [none |-> TRUE]

\* mage k3s:autoscalerConfig, once
PrintCloudConfig ==
    /\ IF ret = NoRet THEN TRUE ELSE ret.printed = NoOutcome
    /\ ret' = [printed |-> AutoscalerConfig(arg.e, arg.c),
               stored  |-> IF ret = NoRet THEN NoOutcome ELSE ret.stored]
    /\ UNCHANGED <<env, vms, nextId, last, arg, cluster, run>>

\* mage k3s:autoscalerInstall up to the secret, once
StoreCloudConfig ==
    /\ IF ret = NoRet THEN TRUE ELSE ret.stored = NoOutcome
    /\ ret' = [printed |-> IF ret = NoRet THEN NoOutcome ELSE ret.printed,
               stored  |-> AutoscalerInstallConfig(arg.e, arg.c)]
    /\ UNCHANGED <<env, vms, nextId, last, arg, cluster, run>>

InitCc == PureInit(CloudConfigInputs)

NextCc == PrintCloudConfig \/ StoreCloudConfig

SpecCc == InitCc /\ [][NextCc]_vars

(***************************************************************************)
(* CreateCloudConfigSecret against an API server that keeps the secret     *)
(* with a resource version: Get, then Create or Update, one call per step. *)
(* run[c] is the call of caller c.                                         *)
(***************************************************************************)
\* the most calls one caller makes
MaxSecCalls == 2

NoSecret == [none |-> TRUE]

NoPrev == [none |-> TRUE]

\* a Secret as the server keeps it: its data and its resourceVersion
SecretObject(data, rv) == [data |-> data, rv |-> rv]

\* the server folds StringData into Data, key by key
WithStringData(data, stringData) ==
    [k \in (DOMAIN data) \cup (DOMAIN stringData) |->
        IF k \in DOMAIN stringData THEN stringData[k] ELSE data[k]]

\* StringData: map[string]string{"cloud-config": cloudConfig}
CloudConfigStringData(cloudConfig) == [k \in {"cloud-config"} |-> cloudConfig]

\* an Update request that sends the fetched object back as it is
UpdatedSecret_Unchanged(existing, stringData) ==
    [data |-> existing.data, rv |-> existing.rv,
     stringData |-> [k \in {} |-> ""]]

\* existing.StringData = secret.StringData
UpdatedSecret(existing, stringData) ==
    [data |-> existing.data, rv |-> existing.rv, stringData |-> stringData]

\* the cluster with its secret and the revision of its store
SecCluster(secret, rev) ==
    [repos |-> {}, releases |-> {}, secret |-> secret, roleDelete |-> FALSE,
     xvms |-> <<>>, rev |-> rev]

\* Secrets.Create: refused when the secret exists
ApiCreate(c, stringData) ==
    IF c.secret # NoSecret THEN [out |-> "exists", cluster |-> c]
    ELSE [out |-> "ok",
          cluster |-> SecCluster(SecretObject(WithStringData([k \in {} |-> ""], stringData),
                                              c.rev + 1), c.rev + 1)]

\* Secrets.Update: refused when the secret is gone or the resourceVersion
\* sent is not the stored one; an update that changes nothing may keep the
\* resourceVersion (bump says whether it gets a new one)
ApiUpdate(c, obj, bump) ==
    IF c.secret = NoSecret THEN [out |-> "notfound", cluster |-> c]
    ELSE IF c.secret.rv # obj.rv THEN [out |-> "conflict", cluster |-> c]
    ELSE LET data == WithStringData(obj.data, obj.stringData)
         IN  IF data = c.secret.data /\ ~ bump THEN [out |-> "ok", cluster |-> c]
             ELSE [out |-> "ok",
                   cluster |-> SecCluster(SecretObject(data, c.rev + 1), c.rev + 1)]

\* the cloudConfig arguments
SecArgs == {"cfgA", "cfgB"}

\* what fails for reasons of transport in a call
SecFaults == {"none", "get", "write"}

\* a caller that has not called yet
IdleCall ==
    [pc |-> "idle", arg |-> "", seen |-> NoSecret, err |-> "", wrote |-> "",
     out |-> "", fault |-> "none", after |-> NoSecret, prev |-> NoPrev, calls |-> 0]

\* one step of caller c
SecStep(c, r, cl) ==
    /\ run' = [run EXCEPT ![c] = r]
    /\ cluster' = cl
    /\ UNCHANGED <<env, vms, nextId, last, arg, ret>>

\* CreateCloudConfigSecret is called
SecStart(c) ==
    /\ run[c].pc \in {"idle", "done"}
    /\ run[c].calls < MaxSecCalls
    /\ \E a \in SecArgs, f \in SecFaults :
           SecStep(c, [IdleCall EXCEPT !.pc = "get", !.arg = a, !.fault = f,
                           !.calls = run[c].calls + 1,
                           !.prev = IF run[c].pc = "done" /\ run[c].err = ""
                                    THEN [arg |-> run[c].arg, secret |-> run[c].after]
                                    ELSE NoPrev],
                   cluster)

\* Secrets.Get
SecGet(c) ==
    /\ run[c].pc = "get"
    /\ SecStep(c, IF run[c].fault = "get"
                  THEN [run[c] EXCEPT !.pc = "done", !.out = "error",
                                      !.err = "failed to get existing secret"]
                  ELSE IF cluster.secret = NoSecret
                  THEN [run[c] EXCEPT !.pc = "create", !.out = "notfound"]
                  ELSE [run[c] EXCEPT !.pc = "update", !.out = "ok",
                                      !.seen = cluster.secret],
               cluster)

\* a write that goes back to the Get when it is refused
WriteRefused_Retry(r, err) == [r EXCEPT !.pc = "get", !.seen = NoSecret]

\* return fmt.Errorf("failed to create secret") / ("failed to update secret")
WriteRefused(r, err) == [r EXCEPT !.pc = "done", !.err = err]

\* Secrets.Create after NotFound
SecCreate(c) ==
    /\ run[c].pc = "create"
    /\ LET res == IF run[c].fault = "write" THEN [out |-> "error", cluster |-> cluster]
                  ELSE ApiCreate(cluster, CloudConfigStringData(run[c].arg))
           r   == [run[c] EXCEPT !.wrote = "create", !.out = res.out]
       IN  SecStep(c, IF res.out = "ok"
                      THEN [r EXCEPT !.pc = "done", !.after = res.cluster.secret]
                      ELSE WriteRefused(r, "failed to create secret"),
                   res.cluster)

\* Secrets.Update of the fetched object
SecUpdate(c) ==
    /\ run[c].pc = "update"
    /\ \E bump \in BOOLEAN :
       LET obj == UpdatedSecret(run[c].seen, CloudConfigStringData(run[c].arg))
           res == IF run[c].fault = "write" THEN [out |-> "error", cluster |-> cluster]
                  ELSE ApiUpdate(cluster, obj, bump)
           r   == [run[c] EXCEPT !.wrote = "update", !.out = res.out]
       IN  SecStep(c, IF res.out = "ok"
                      THEN [r EXCEPT !.pc = "done", !.after = res.cluster.secret]
                      ELSE WriteRefused(r, "failed to update secret"),
                   res.cluster)

\* DeleteCloudConfigSecret, between calls
SecDelete ==
    /\ \A c \in DOMAIN run : run[c].pc \in {"idle", "done"}
    /\ cluster.secret # NoSecret
    /\ cluster' = SecCluster(NoSecret, cluster.rev)
    /\ UNCHANGED <<env, vms, nextId, last, arg, ret, run>>

\* the secret before the first call: absent, or present with another key
SecInitial ==
    {NoSecret,
     SecretObject([k \in {"cloud-config", "extra"} |->
                      IF k = "extra" THEN "keep" ELSE "old"], 1)}

InitSecOf(callers) ==
    /\ env \in {e \in EnvChoices : e.SLICER_HOST_GROUP = ""}
    /\ vms = <<>>
    /\ nextId = 0
    /\ last = InitLast
    /\ arg = NoArg
    /\ ret = NoRet
    /\ \E s \in SecInitial : cluster = SecCluster(s, 1)
    /\ run = [c \in callers |-> IdleCall]

NextSecOf(callers) ==
    \/ \E c \in callers : SecStart(c)
    \/ \E c \in callers : SecGet(c)
    \/ \E c \in callers : SecCreate(c)
    \/ \E c \in callers : SecUpdate(c)
    \/ SecDelete

\* one caller, one call after another
NextSeq == NextSecOf({1})

SpecSeq == InitSecOf({1}) /\ [][NextSeq]_vars

\* two callers, their calls interleaved
NextSec == NextSecOf({1, 2})

SpecSec == InitSecOf({1, 2}) /\ [][NextSec]_vars

(***************************************************************************)
(* PatchClusterRole on the rules of the ClusterRole.                       *)
(***************************************************************************)
\* the most rules of a ClusterRole
MaxRules == 2

RECURSIVE hasVerbFrom(_, _, _)
\* the loop over rule.Verbs that sets hasDelete
hasVerbFrom(verbs, verb, k) ==
    IF k > Len(verbs) THEN FALSE
    ELSE IF verbs[k] = verb THEN TRUE
    ELSE hasVerbFrom(verbs, verb, k + 1)

\* an append to the verbs the rule has by now
appendDelete_Current(ruleVerbs, current) == Append(current, "delete")

\* append(rule.Verbs, "delete"): to the verbs of the loop's copy of the rule
appendDelete(ruleVerbs, current) == Append(ruleVerbs, "delete")

RECURSIVE patchRuleFrom(_, _, _)
\* the loop over rule.Resources from j on; rule is the copy the range made,
\* current the verbs of clusterRole.Rules[i] by now
patchRuleFrom(rule, current, j) ==
    IF j > Len(rule.Resources) THEN current
    ELSE IF rule.Resources[j] = "nodes" /\ ~ hasVerbFrom(rule.Verbs, "delete", 1)
    THEN patchRuleFrom(rule, appendDelete(rule.Verbs, current), j + 1)
    ELSE patchRuleFrom(rule, current, j + 1)

\* the loop over clusterRole.Rules
patchRules(rules) ==
    [i \in 1..Len(rules) |->
        [Resources |-> rules[i].Resources,
         Verbs |-> patchRuleFrom(rules[i], rules[i].Verbs, 1)]]

\* PatchClusterRole on a role with these rules: its error and the rules of
\* the role afterwards
PatchClusterRole(rules, fault) ==
    IF fault = "get" THEN [err |-> "failed to get ClusterRole", rules |-> rules]
    ELSE IF fault = "update" THEN [err |-> "failed to update ClusterRole", rules |-> rules]
    ELSE [err |-> "", rules |-> patchRules(rules)]

RoleResources ==
    {<<"pods">>, <<"nodes">>, <<"nodes", "nodes">>, <<"pods", "nodes">>, <<>>}

RoleVerbs ==
    {<<>>, <<"get">>, <<"delete">>, <<"get", "delete">>, <<"delete", "delete">>}

RoleRules == [Resources : RoleResources, Verbs : RoleVerbs]

RoleRuleLists(len) == UNION {[1..n -> RoleRules] : n \in 0..len}

RoleInputs == [rules : RoleRuleLists(MaxRules), fault : {"none", "get", "update"}]

\* PatchClusterRole, and PatchClusterRole again on what it left
PatchRole ==
    LET once  == PatchClusterRole(arg.rules, arg.fault)
        twice == PatchClusterRole(once.rules, arg.fault)
    IN  Returns([once |-> once, twice |-> twice])

InitRole == PureInit(RoleInputs)

NextRole == PatchRole

SpecRole == InitRole /\ [][NextRole]_vars

(***************************************************************************)
(* The stress-test deployment autoscaler-stress-test of namespace default  *)
(* and the targets that create, scale, report and remove it.               *)
(***************************************************************************)
\* the most replicas asked for
MaxReplicas == 2

NoDeployment == [none |-> TRUE]

\* a Deployment: spec.replicas, status.replicas and status.readyReplicas
Deployment(replicas, statusReplicas, readyReplicas) ==
    [replicas |-> replicas, statusReplicas |-> statusReplicas,
     readyReplicas |-> readyReplicas]

\* the cluster with its stress-test deployment
StressCluster(deployment) ==
    [repos |-> {}, releases |-> {}, secret |-> FALSE, roleDelete |-> FALSE,
     xvms |-> <<>>, deployment |-> deployment]

\* a target ran: the cluster afterwards, and what it returned and printed
StressStep(deployment, op, err, line) ==
    /\ cluster' = StressCluster(deployment)
    /\ ret' = [op |-> op, err |-> err, line |-> line]
    /\ UNCHANGED <<env, vms, nextId, last, arg, run>>

\* mage k3s:autoscalerStressTest n: CreateStressTestDeployment creates the
\* deployment, or updates its spec when it is there
AutoscalerStressTest ==
    \E n \in 0..MaxReplicas, ok \in BOOLEAN :
        IF ~ ok
        THEN StressStep(cluster.deployment, "create", "failed to create stress test", "")
        ELSE IF cluster.deployment = NoDeployment
        THEN StressStep(Deployment(n, 0, 0), "create", "", "Stress test deployment created")
        ELSE StressStep([cluster.deployment EXCEPT !.replicas = n], "create", "",
                        "Stress test deployment created")

\* mage k3s:autoscalerStressTestScale n: GetScale, UpdateScale
AutoscalerStressTestScale ==
    \E n \in 0..MaxReplicas, ok \in BOOLEAN :
        IF ~ ok \/ cluster.deployment = NoDeployment
        THEN StressStep(cluster.deployment, "scale", "failed to scale stress test", "")
        ELSE StressStep([cluster.deployment EXCEPT !.replicas = n], "scale", "",
                        "Stress test deployment scaled")

\* GetStressTestStatus: ready, total, err; 0, 0, nil on NotFound
GetStressTestStatus(deployment, ok) ==
    IF ~ ok THEN [ready |-> 0, total |-> 0, err |-> "failed to get deployment"]
    ELSE IF deployment = NoDeployment THEN [ready |-> 0, total |-> 0, err |-> ""]
    ELSE [ready |-> deployment.readyReplicas, total |-> deployment.statusReplicas,
          err |-> ""]

\* the line "Stress test: %d/%d pods ready"
ReadyLine(ready, total) ==
    "Stress test: " \o ToString(ready) \o "/" \o ToString(total) \o " pods ready"

\* mage k3s:autoscalerStressTestStatus
AutoscalerStressTestStatus ==
    \E ok \in BOOLEAN :
        LET st == GetStressTestStatus(cluster.deployment, ok)
        IN  IF st.err # ""
            THEN StressStep(cluster.deployment, "status",
                            "failed to get stress test status", "")
            ELSE IF st.total = 0
            THEN StressStep(cluster.deployment, "status", "",
                            "No stress test deployment found")
            ELSE StressStep(cluster.deployment, "status", "",
                            ReadyLine(st.ready, st.total))

\* mage k3s:autoscalerStressTestCleanup: Delete, NotFound passed over
AutoscalerStressTestCleanup ==
    \E ok \in BOOLEAN :
        IF ok THEN StressStep(NoDeployment, "cleanup", "", "Stress test deployment deleted")
        ELSE StressStep(cluster.deployment, "cleanup", "failed to delete stress test", "")

\* not a target: the deployment controller brings status.replicas towards
\* spec.replicas, one pod at a time
ControllerReconciles ==
    /\ cluster.deployment # NoDeployment
    /\ cluster.deployment.statusReplicas # cluster.deployment.replicas
    /\ LET d == cluster.deployment
           n == IF d.statusReplicas < d.replicas THEN d.statusReplicas + 1
                ELSE d.statusReplicas - 1
       IN  cluster' = StressCluster(Deployment(d.replicas, n,
                                               IF d.readyReplicas > n THEN n
                                               ELSE d.readyReplicas))
    /\ UNCHANGED <<env, vms, nextId, last, arg, ret, run>>

\* not a target: a pod of the deployment becomes ready
PodBecomesReady ==
    /\ cluster.deployment # NoDeployment
    /\ cluster.deployment.readyReplicas < cluster.deployment.statusReplicas
    /\ cluster' = StressCluster([cluster.deployment EXCEPT !.readyReplicas = @ + 1])
    /\ UNCHANGED <<env, vms, nextId, last, arg, ret, run>>

InitStress ==
    /\ env \in {e \in EnvChoices : e.SLICER_HOST_GROUP = ""}
    /\ vms = <<>>
    /\ nextId = 0
    /\ last = InitLast
    /\ arg = NoArg
    /\ ret = NoRet
    /\ cluster = StressCluster(NoDeployment)
    /\ run = NoRun

NextStress ==
    \/ AutoscalerStressTest
    \/ AutoscalerStressTestScale
    \/ AutoscalerStressTestStatus
    \/ AutoscalerStressTestCleanup
    \/ ControllerReconciles
    \/ PodBecomesReady

SpecStress == InitStress /\ [][NextStress]_vars

(***************************************************************************)
(* Properties of the VM lifecycle (Spec).                                  *)
(***************************************************************************)
\* the hostnames a list target printed
ListedHostnames(out) ==
    IF Len(out) > 0 /\ out[1].kind = "header"
    THEN [i \in 1..(Len(out) - 1) |-> out[i + 1].Hostname]
    ELSE <<>>

\* the hostnames of the VMs a workload's deploy created and nothing deleted
LiveHostnamesOf(w) ==
    LET own == SelectSeq(vms, LAMBDA v : v.By = w)
    IN  [i \in 1..Len(own) |-> own[i].Hostname]

C4_ListShowsOwnLiveVMs ==
    /\ \A i \in 1..Len(vms) :
           vms[i].By \in Workloads =>
               \E j \in 1..Len(vms[i].Tags) : vms[i].Tags[j] = vms[i].By
    /\ (last.op = "deploy" /\ last.created # 0) =>
           \E i \in 1..Len(vms) :
               vms[i].Hostname = last.created /\ vms[i].By = last.wl
    /\ (last.op = "list" /\ last.err = "") =>
           ListedHostnames(last.out) = LiveHostnamesOf(last.wl)

\* C4 witness: a list that printed one VM while another workload's VM stood
\* in the same host group
C4_Witness ==
    /\ last.op = "list" /\ last.err = ""
    /\ Len(ListedHostnames(last.out)) = 1
    /\ Len(vms) = 2
    /\ vms[1].HostGroup = vms[2].HostGroup
    /\ nextId = 2

(***************************************************************************)
(* Properties of gitea:deploy and runner:deploy (SpecDeps).                *)
(***************************************************************************)
\* the VMs as the last target found them
PriorVMs == IF last.created # 0 THEN SubSeq(vms, 1, Len(vms) - 1) ELSE vms

\* the calls of a kind the last target made
CallsOf(kind) == {i \in 1..Len(last.calls) : last.calls[i].call = kind}

\* the IP, cut before its first "/", of the first VM of the default host
\* group that carried tag when the last target ran; "" when there was none
DetectedIP(tag) ==
    LET at == {i \in 1..Len(PriorVMs) :
                  /\ PriorVMs[i].HostGroup = DefaultHostGroup
                  /\ \E j \in 1..Len(PriorVMs[i].Tags) : PriorVMs[i].Tags[j] = tag}
        ip == PriorVMs[CHOOSE i \in at : \A k \in at : i <= k].IP
        sl == {k \in 1..Len(ip) : SubSeq(ip, k, k) = "/"}
    IN  IF at = {} THEN ""
        ELSE IF sl = {} THEN ip
        ELSE SubSeq(ip, 1, (CHOOSE k \in sl : \A m \in sl : k <= m) - 1)

\* the configuration a CreateNode call of the last target was filled from
CreatedConfig == last.calls[Len(last.calls)].req.Userdata.config

\* C5: gitea:deploy issues CreateNode only with a database host, an S3
\* endpoint, GITEA_DB_PASS, GITEA_S3_ACCESS_KEY and GITEA_S3_SECRET_KEY all
\* non-empty; when a variable is empty or a host is neither given nor
\* detectable the target fails, calls no CreateNode and creates no VM
C5_GiteaCreateNeedsAll ==
    (last.op = "deploy" /\ last.wl = "gitea") =>
        /\ CallsOf("CreateNode") # {} =>
               /\ CallsOf("CreateNode") = {Len(last.calls)}
               /\ CreatedConfig.DBHost # "" /\ CreatedConfig.S3Endpoint # ""
               /\ last.in.GITEA_DB_PASS # "" /\ CreatedConfig.DBPass = last.in.GITEA_DB_PASS
               /\ last.in.GITEA_S3_ACCESS_KEY # ""
               /\ CreatedConfig.S3AccessKey = last.in.GITEA_S3_ACCESS_KEY
               /\ last.in.GITEA_S3_SECRET_KEY # ""
               /\ CreatedConfig.S3SecretKey = last.in.GITEA_S3_SECRET_KEY
        /\ ( \/ last.in.GITEA_DB_PASS = ""
             \/ last.in.GITEA_S3_ACCESS_KEY = ""
             \/ last.in.GITEA_S3_SECRET_KEY = ""
             \/ (last.in.GITEA_DB_HOST = "" /\ DetectedIP("postgres") = "")
             \/ (last.in.GITEA_S3_ENDPOINT = "" /\ DetectedIP("rustfs") = "") ) =>
               /\ last.err # ""
               /\ CallsOf("CreateNode") = {}
               /\ last.created = 0
        /\ last.created # 0 => (last.err = "" /\ CallsOf("CreateNode") # {})

\* C5 witness: a gitea:deploy that found its database host, had its S3
\* endpoint and keys, and stopped for want of GITEA_DB_PASS
C5_Witness ==
    /\ last.op = "deploy" /\ last.wl = "gitea"
    /\ last.in.GITEA_DB_HOST = "" /\ DetectedIP("postgres") # ""
    /\ last.in.GITEA_DB_PASS = ""
    /\ last.in.GITEA_S3_ENDPOINT # ""
    /\ last.in.GITEA_S3_ACCESS_KEY # "" /\ last.in.GITEA_S3_SECRET_KEY # ""
    /\ last.err = "GITEA_DB_PASS environment variable is required"
    /\ CallsOf("CreateNode") = {}

\* C6: an unset GITEA_DB_HOST (GITEA_S3_ENDPOINT, GITEA_URL) is resolved to
\* the IP of the first VM tagged postgres (rustfs, gitea), cut before its
\* first "/" (with ":9000" appended; between "http://" and ":3000"); a set
\* variable is used verbatim and costs no list call; with no tagged VM the
\* deploy fails
C6_AutoDetectFirstTagged ==
    /\ (last.op = "deploy" /\ last.wl = "gitea") =>
        LET unset == {v \in {"GITEA_DB_HOST", "GITEA_S3_ENDPOINT"} : last.in[v] = ""}
        IN  /\ Cardinality(CallsOf("GetHostGroupNodes")) <= Cardinality(unset)
            /\ \A i \in CallsOf("GetHostGroupNodes") :
                   last.calls[i].hostGroup = DefaultHostGroup
            /\ CallsOf("CreateNode") # {} =>
                   /\ Cardinality(CallsOf("GetHostGroupNodes")) = Cardinality(unset)
                   /\ CreatedConfig.DBHost =
                          IF last.in.GITEA_DB_HOST # "" THEN last.in.GITEA_DB_HOST
                          ELSE DetectedIP("postgres")
                   /\ CreatedConfig.S3Endpoint =
                          IF last.in.GITEA_S3_ENDPOINT # "" THEN last.in.GITEA_S3_ENDPOINT
                          ELSE DetectedIP("rustfs") \o ":9000"
            /\ ( \/ (last.in.GITEA_DB_HOST = "" /\ DetectedIP("postgres") = "")
                 \/ (last.in.GITEA_S3_ENDPOINT = "" /\ DetectedIP("rustfs") = "") ) =>
                   (last.err # "" /\ CallsOf("CreateNode") = {})
    /\ (last.op = "deploy" /\ last.wl = "runner") =>
        /\ last.in.GITEA_URL # "" => CallsOf("GetHostGroupNodes") = {}
        /\ Cardinality(CallsOf("GetHostGroupNodes")) <= 1
        /\ CallsOf("CreateNode") # {} =>
               CreatedConfig.GiteaURL =
                   IF last.in.GITEA_URL # "" THEN last.in.GITEA_URL
                   ELSE "http://" \o DetectedIP("gitea") \o ":3000"
        /\ (last.in.GITEA_URL = "" /\ DetectedIP("gitea") = "") =>
               (last.err # "" /\ CallsOf("CreateNode") = {})

\* C6 witness: a gitea:deploy that detected, behind an untagged VM and ahead
\* of a second postgres VM, a database host whose IP carried a CIDR suffix
C6_Witness ==
    /\ last.op = "deploy" /\ last.wl = "gitea" /\ last.err = ""
    /\ last.in.GITEA_DB_HOST = ""
    /\ Len(PriorVMs) >= 2
    /\ \E i \in 1..Len(PriorVMs) :
           /\ PriorVMs[i].By = "postgres"
           /\ PriorVMs[i].IP # DetectedIP("postgres")
           /\ CreatedConfig.DBHost \o "/24" = PriorVMs[i].IP
           /\ \E k \in (i + 1)..Len(PriorVMs) : PriorVMs[k].By = "postgres"

\* C7: runner:deploy without RUNNER_TOKEN fails and issues no CreateNode,
\* whatever GITEA_URL is and whatever VMs are listed
C7_RunnerNeedsToken ==
    (last.op = "deploy" /\ last.wl = "runner" /\ last.in.RUNNER_TOKEN = "") =>
        /\ last.err # ""
        /\ CallsOf("CreateNode") = {}
        /\ last.created = 0
        /\ PriorVMs = vms

\* C7 witness: a runner:deploy that detected a Gitea VM and stopped for want
\* of RUNNER_TOKEN
C7_Witness ==
    /\ last.op = "deploy" /\ last.wl = "runner"
    /\ last.in.RUNNER_TOKEN = "" /\ last.in.GITEA_URL = ""
    /\ DetectedIP("gitea") # ""
    /\ last.err = "RUNNER_TOKEN environment variable is required"
    /\ CallsOf("CreateNode") = {}

(***************************************************************************)
(* Properties of the templaters (SpecTpl).                                 *)
(***************************************************************************)
\* the positions from from on at which some placeholder of pairs starts
PlaceholderAt(tpl, pairs, from) ==
    {i \in from..Len(tpl) :
        \E k \in 1..Len(pairs) :
            /\ i + Len(pairs[k][1]) - 1 <= Len(tpl)
            /\ SubSeq(tpl, i, i + Len(pairs[k][1]) - 1) = pairs[k][1]}

RECURSIVE SubstituteFrom(_, _, _)
\* tpl from position from on, each placeholder occurrence of the template
\* replaced by its value, the values themselves left as they are
SubstituteFrom(tpl, pairs, from) ==
    LET at == PlaceholderAt(tpl, pairs, from)
    IN  IF at = {} THEN SubSeq(tpl, from, Len(tpl))
        ELSE LET i == CHOOSE x \in at : \A y \in at : x <= y
                 k == CHOOSE x \in 1..Len(pairs) :
                          /\ i + Len(pairs[x][1]) - 1 <= Len(tpl)
                          /\ SubSeq(tpl, i, i + Len(pairs[x][1]) - 1) = pairs[x][1]
             IN  SubSeq(tpl, from, i - 1) \o pairs[k][2]
                 \o SubstituteFrom(tpl, pairs, i + Len(pairs[k][1]))

\* C2 as stated: the script each templater produces is its template with
\* every placeholder occurrence of the template replaced by the configured
\* value, the values inserted verbatim
C2_LiteralSubstitution ==
    ret # NoRet =>
        ret.text = SubstituteFrom(TemplateOf(arg), PlaceholdersOf(arg), 1)

(***************************************************************************)
(* Properties of tag matching (SpecTag).                                   *)
(***************************************************************************)
\* the positions of the nodes one of whose tags is exactly tag
Carrying(nodes, tag) ==
    {i \in 1..Len(nodes) : \E j \in 1..Len(nodes[i].Tags) : nodes[i].Tags[j] = tag}

\* C3: hasTag(tags, t) is true exactly when an element of tags equals t;
\* printNodeList prints exactly the nodes carrying the tag, in input order,
\* under a count equal to their number, and the "No ... VMs found" line
\* exactly when there is none
C3_TagEquality ==
    ret # NoRet =>
        /\ arg.fn = "hasTag" =>
               (ret.has <=> \E i \in 1..Len(arg.tags) : arg.tags[i] = arg.tag)
        /\ arg.fn = "printNodeList" =>
               LET keep == Carrying(arg.nodes, arg.tag)
                   out  == ret.out
               IN  /\ (keep = {}) <=> (out[1].kind = "none")
                   /\ keep = {} => Len(out) = 1
                   /\ keep # {} =>
                          /\ out[1].kind = "header"
                          /\ out[1].count = Cardinality(keep)
                          /\ Len(out) = 1 + Cardinality(keep)
                          /\ {out[i].Hostname : i \in 2..Len(out)} = keep
                          /\ \A i \in 2..Len(out) :
                                 /\ out[i].kind = "node"
                                 /\ out[i].Tags = arg.nodes[out[i].Hostname].Tags
                                 /\ out[i].IP = arg.nodes[out[i].Hostname].IP
                                 /\ i > 2 => out[i - 1].Hostname < out[i].Hostname

\* C3 witness: a list of two nodes of which only the second carries the tag,
\* the first carrying a tag the asked one is a prefix of
C3_Witness ==
    /\ ret # NoRet /\ arg.fn = "printNodeList"
    /\ arg.tag = "k3s" /\ Len(arg.nodes) = 2
    /\ arg.nodes[1].Tags = <<"k3s-cp">>
    /\ arg.nodes[2].Tags = <<"k3s-cp", "k3s">>
    /\ ret.out[1].kind = "header" /\ ret.out[1].count = 1
    /\ ret.out[2].Hostname = 2

(***************************************************************************)
(* Properties of postgres Deploy and GeneratePassword (SpecPg, SpecPw).    *)
(***************************************************************************)
\* is every character of s one of the alphabet
OverAlphabet(s) ==
    \A i \in 1..Len(s) :
        \E k \in 1..Len(alphanumeric) : SubSeq(s, i, i) = SubSeq(alphanumeric, k, k)

\* does the random source fail within the first n draws
FailsWithin(rnd, n) == rnd.failAt \in 0..(n - 1)

\* C8: Deploy generates a 24-character password exactly when config.DBPass
\* is empty, falls back to "app" for an empty DBName or DBUser, returns on
\* success exactly the three values it put into the userdata of its
\* CreateNode request, and returns no response when CreateNode fails
C8_CredentialsAsInstalled ==
    ret # NoRet =>
        LET cfg == arg.cfg
            u   == ret.calls[1].req.Userdata
        IN  /\ (cfg.DBPass = "" /\ FailsWithin(arg.rnd, PasswordLength)) <=>
                   ret.calls = <<>>
            /\ ret.calls = <<>> => (ret.err # "" /\ ret.resp = NoResp)
            /\ ret.calls # <<>> =>
                   /\ Len(ret.calls) = 1 /\ ret.calls[1].call = "CreateNode"
                   /\ cfg.DBPass # "" => u.password = cfg.DBPass
                   /\ cfg.DBPass = "" =>
                          /\ Len(u.password) = 24
                          /\ OverAlphabet(u.password)
                   /\ u.dbName = (IF cfg.DBName = "" THEN "app" ELSE cfg.DBName)
                   /\ u.dbUser = (IF cfg.DBUser = "" THEN "app" ELSE cfg.DBUser)
                   /\ RenderUserdata(u) =
                          postgresGenerateUserdata(u.dbName, u.dbUser, u.password)
                   /\ (ret.err = "") <=> arg.createOk
                   /\ arg.createOk =>
                          /\ ret.resp.Credentials.DBName = u.dbName
                          /\ ret.resp.Credentials.DBUser = u.dbUser
                          /\ ret.resp.Credentials.DBPass = u.password
                   /\ ~ arg.createOk => ret.resp = NoResp

\* C8 witness: a successful Deploy that generated the password and fell back
\* to the default database name beside a configured user
C8_Witness ==
    /\ ret # NoRet /\ arg.createOk /\ ret.err = ""
    /\ arg.cfg.DBPass = "" /\ arg.cfg.DBName = "" /\ arg.cfg.DBUser = "me"
    /\ Len(ret.resp.Credentials.DBPass) = 24
    /\ ret.resp.Credentials.DBPass # ret.resp.Credentials.DBUser
    /\ ret.resp.Credentials.DBName = "app"

\* C9: when the random source does not fail GeneratePassword(length) returns
\* exactly length characters, each of the 62 of [a-zA-Z0-9]; when it fails
\* the result is the empty string and an error
C9_PasswordShape ==
    /\ Len(alphanumeric) = 62
    /\ Cardinality({SubSeq(alphanumeric, k, k) : k \in 1..Len(alphanumeric)}) = 62
    /\ ret # NoRet =>
           /\ (ret.err # "") <=> FailsWithin(arg.rnd, arg.length)
           /\ ret.err = "" => (Len(ret.s) = arg.length /\ OverAlphabet(ret.s))
           /\ ret.err # "" => ret.s = ""

\* C9 witness: a password of the length Deploy asks for whose draws reached
\* the last character of the alphabet
C9_Witness ==
    /\ ret # NoRet /\ ret.err = ""
    /\ arg.length = PasswordLength /\ Len(ret.s) = PasswordLength
    /\ \E i \in 1..Len(ret.s) : SubSeq(ret.s, i, i) = "9"
    /\ \E i \in 1..Len(ret.s) : SubSeq(ret.s, i, i) = "a"

(***************************************************************************)
(* Properties of the config resolvers (SpecCfg).                           *)
(***************************************************************************)
\* C10 as stated: the HostGroup of every workload's default configuration is
\* SLICER_HOST_GROUP when that is non-empty and "api" otherwise
C10_HostGroupFromSlicerVar ==
    ret # NoRet =>
        ret.HostGroup = (IF arg.e.SLICER_HOST_GROUP # ""
                         THEN arg.e.SLICER_HOST_GROUP ELSE "api")

\* C11 as stated: the default configuration of BuildKit, PostgreSQL, Gitea,
\* Runner, K3s CP and K3s Agent is 2 vCPU, 4 GB RAM and 25G storage, as the
\* README's VM Specifications table has it
C11_DefaultsMatchReadme ==
    (ret # NoRet /\ arg.w \in Workloads) =>
        /\ ret.VCPU = 2
        /\ ret.RAMGB = 4
        /\ ret.StorageSize = "25G"

(***************************************************************************)
(* Properties of k3s:devices (SpecTag).                                    *)
(***************************************************************************)
\* ip up to its first "/", all of it when it has none
BeforeSlash(ip) ==
    LET sl == {k \in 1..Len(ip) : SubSeq(ip, k, k) = "/"}
    IN  IF sl = {} THEN ip
        ELSE SubSeq(ip, 1, (CHOOSE k \in sl : \A m \in sl : k <= m) - 1)

\* C12: k3s:devices emits one device per listed VM carrying tag k3s-cp and
\* none for another VM, in list order, each with the VM's IP cut before its
\* first "/", so that no emitted IP holds a "/"; with no such VM the output
\* is the empty array
C12_DevicesOfControlPlane ==
    (ret # NoRet /\ arg.fn = "devices") =>
        LET keep == Carrying(arg.nodes, "k3s-cp")
            dev  == ret.devices
        IN  /\ Len(dev) = Cardinality(keep)
            /\ {dev[i].hostname : i \in 1..Len(dev)} = keep
            /\ \A i \in 1..Len(dev) :
                   /\ i > 1 => dev[i - 1].hostname < dev[i].hostname
                   /\ dev[i].ip = BeforeSlash(arg.nodes[dev[i].hostname].IP)
                   /\ \A k \in 1..Len(dev[i].ip) : SubSeq(dev[i].ip, k, k) # "/"
            /\ keep = {} => dev = <<>>

\* C12 witness: two listed VMs, the first an agent, the second a control
\* plane VM whose IP holds two "/", emitted cut before the first
C12_Witness ==
    /\ ret # NoRet /\ arg.fn = "devices"
    /\ Len(arg.nodes) = 2
    /\ arg.nodes[1].Tags = <<"k3s", "k3s-agent">>
    /\ arg.nodes[2].Tags = <<"k3s", "k3s-cp">>
    /\ arg.nodes[2].IP = "10.0.0.9/24/8"
    /\ Len(ret.devices) = 1
    /\ ret.devices[1].ip = "10.0.0.9"

(***************************************************************************)
(* Properties of gatewayFromCIDR (SpecGw).                                 *)
(***************************************************************************)
\* the 1-based positions of a character in s
PositionsOf(s, c) == {k \in 1..Len(s) : SubSeq(s, k, k) = c}

\* the largest element of a non-empty set of numbers
Largest(S) == CHOOSE x \in S : \A y \in S : y <= x

HelmRank(step) ==
    CASE step = "repo.index"   -> 1
      [] step = "repo.write"   -> 2
      [] step = "helm.init"    -> 3
      [] step = "helm.history" -> 4
      [] step = "helm.locate"  -> 5
      [] step = "helm.load"    -> 6
      [] step = "helm.upgrade" -> 7
      [] step = "helm.install" -> 7
      [] OTHER                 -> 0

\* the positions in run.steps of the calls of a Helm install
HelmCalls == {i \in 1..Len(run.steps) : HelmRank(run.steps[i].step) > 0}

\* the positions in run.steps of a call
StepsOf(step) == {i \in 1..Len(run.steps) : run.steps[i].step = step}

\* did the release exist when the history query of this run was made
ReleaseWasThere ==
    /\ run.who \in cluster.releases
    /\ \A i \in StepsOf("helm.install") : run.steps[i].out # "ok"

\* C14: a Helm-based Install makes its calls in the order index download,
\* repo-file write (only when the repo is absent), init, history, locate,
\* load, then one of upgrade and install; it upgrades exactly when the
\* history query returned without error a release; an error of any call but
\* the history query ends the operation with an error and no later call
C14_HelmInstallOrder ==
    (run # NoRun /\ run.target \in {"install", "autoscalerInstall"}) =>
        /\ \A i, k \in HelmCalls :
               i < k => HelmRank(run.steps[i].step) < HelmRank(run.steps[k].step)
        /\ \A i \in HelmCalls : \A r \in {1, 3, 4, 5, 6} :
               r < HelmRank(run.steps[i].step) =>
                   \E k \in HelmCalls : k < i /\ HelmRank(run.steps[k].step) = r
        /\ \A i \in StepsOf("repo.write") :
               run.steps[i - 1] = [step |-> "repo.load", out |-> "error"]
               \/ run.who \notin cluster.repos
               \/ run.steps[i].out = "ok"
        /\ \A i \in HelmCalls :
               (run.steps[i].out = "error" /\ run.steps[i].step # "helm.history") =>
                   (i = Len(run.steps) /\ run.pc = "done" /\ run.err # "")
        /\ StepsOf("helm.upgrade") # {} =>
               /\ ReleaseWasThere
               /\ \A i \in StepsOf("helm.history") : run.steps[i].out = "ok"
        /\ StepsOf("helm.install") # {} =>
               \/ ~ ReleaseWasThere
               \/ \A i \in StepsOf("helm.history") : run.steps[i].out # "ok"
        /\ (run.target = "install" /\ run.pc = "done" /\ run.err = "") =>
               \E i \in StepsOf("helm.upgrade") \cup StepsOf("helm.install") :
                   run.steps[i].out = "ok" /\ i = Len(run.steps)

\* C14 witness: a finished grafana Install that found its repo in the repo
\* file and its release in the history, and upgraded
C14_Witness ==
    /\ run # NoRun /\ run.target = "install" /\ run.who = "grafana"
    /\ run.pc = "done" /\ run.err = ""
    /\ StepsOf("repo.write") = {}
    /\ StepsOf("helm.upgrade") # {}
    /\ \A i \in 1..Len(run.steps) : run.steps[i].out = "ok"
    /\ Len(run.steps) = 9


\* the positions in run.steps of the calls that failed
FailedCalls == {i \in 1..Len(run.steps) : run.steps[i].out # "ok"}

PassedOver(c) ==
    \/ c.step \in {"helm.history", "repo.load", "k8s.scrape.get"}
    \/ c.step \in {"k8s.secret.get", "k8s.secret.delete"} /\ c.out = "notfound"
    \/ c.step \in {"k8s.clusterrole.get", "k8s.clusterrole.update"} /\ run.warned

MutatingSteps ==
    {"k8s.secret.create", "k8s.secret.update", "k8s.secret.delete",
     "helm.install", "helm.upgrade", "helm.uninstall", "k8s.clusterrole.update"}

\* the positions in run.steps of the calls that change the cluster
MutatingCalls == {i \in 1..Len(run.steps) : run.steps[i].step \in MutatingSteps}

\* C16: within one invocation each mutating remote call (CreateNode,
\* DeleteVM, secret create/update/delete, Helm install/upgrade/uninstall,
\* ClusterRole update) is issued at most once, and a failed one is the last
\* call of the invocation
C16_MutatingCallsOnce ==
    /\ run # NoRun =>
           /\ \A i, k \in MutatingCalls :
                  run.steps[i].step = run.steps[k].step => i = k
           /\ \A i \in MutatingCalls :
                  run.steps[i].out # "ok" => (i = Len(run.steps) /\ run.pc = "done")
    /\ Cardinality(CallsOf("CreateNode")) <= 1
    /\ Cardinality(CallsOf("DeleteVM")) <= 1
    /\ last.err # "" => \A i \in CallsOf("CreateNode") \cup CallsOf("DeleteVM") :
                            i = Len(last.calls)

\* C16 witness: a gitea deploy that stopped at its one failed CreateNode, and
\* an autoscalerInstall that stopped at its one failed secret update
C16_Witness ==
    /\ last.op = "deploy" /\ last.err # "" /\ last.created = 0
    /\ Cardinality(CallsOf("CreateNode")) = 1
    /\ run # NoRun /\ run.target = "autoscalerInstall" /\ run.pc = "done"
    /\ run.err = "failed to update secret"
    /\ run.steps[Len(run.steps)] = [step |-> "k8s.secret.update", out |-> "error"]
    /\ Cardinality(StepsOf("k8s.secret.update")) = 1


\* an autoscalerInstall run without SLICER_TOKEN
NoTokenInstall(r) ==
    r # NoRun /\ r.target = "autoscalerInstall" /\ r.slicerToken = ""

\* C17: with SLICER_TOKEN empty, autoscalerInstall returns an error, and no
\* step of it changes the cluster: no secret create or update, no Helm
\* install or upgrade, no ClusterRole update
C17_NoTokenNoChange ==
    /\ [](NoTokenInstall(run) =>
             /\ MutatingCalls = {}
             /\ run.pc = "done" => run.err # "")
    /\ [][NoTokenInstall(run') => cluster' = cluster]_vars

\* C17 witness: the target stopped at the SLICER_TOKEN check, on a cluster
\* that has the secret and the release to update
C17_Witness ==
    /\ NoTokenInstall(run)
    /\ run.pc = "done"
    /\ run.err = "SLICER_TOKEN environment variable is required"
    /\ cluster.secret /\ "autoscaler" \in cluster.releases


\* the positions in run.steps of the calls named in names with outcome out
CallsWith(names, out) ==
    {i \in 1..Len(run.steps) : run.steps[i].step \in names /\ run.steps[i].out = out}

SecretWrites == {"k8s.secret.create", "k8s.secret.update"}

HelmReleases == {"helm.install", "helm.upgrade"}

RolePatch == {"k8s.clusterrole.get", "k8s.clusterrole.update"}

\* the positions in run.steps of the calls of InstallAutoscaler
InstallAutoscalerCalls ==
    HelmCalls \cup StepsOf("repo.new") \cup StepsOf("repo.load")

\* C19: autoscalerInstall writes the cloud-config secret first, starts the
\* Helm install only after the secret write succeeded and attempts the
\* ClusterRole patch only after the Helm release action succeeded; a failed
\* secret write or Helm release action returns an error, a failed ClusterRole
\* patch only warns and the target returns success
C19_AutoscalerInstallOrder ==
    (run # NoRun /\ run.target = "autoscalerInstall") =>
        /\ \A i \in InstallAutoscalerCalls : \E k \in CallsWith(SecretWrites, "ok") : k < i
        /\ \A i \in CallsWith(RolePatch, "ok") \cup CallsWith(RolePatch, "error") :
               \E k \in CallsWith(HelmReleases, "ok") : k < i
        /\ \A i \in CallsWith(SecretWrites \cup HelmReleases, "error") :
               i = Len(run.steps) /\ run.pc = "done" /\ run.err # ""
        /\ \A i \in CallsWith(RolePatch, "error") :
               i = Len(run.steps) /\ run.pc = "done" /\ run.err = "" /\ run.warned
        /\ (run.pc = "done" /\ run.err = "" /\ ~ run.warned) =>
               /\ Len(run.steps) \in CallsWith({"k8s.clusterrole.update"}, "ok")
               /\ cluster.secret /\ "autoscaler" \in cluster.releases
               /\ cluster.roleDelete

\* C19 witness: the secret was created, the chart installed, and the update
\* of the ClusterRole failed: the target warned and returned success
C19_Witness ==
    /\ run # NoRun /\ run.target = "autoscalerInstall"
    /\ run.pc = "done" /\ run.err = "" /\ run.warned
    /\ CallsWith({"k8s.secret.create"}, "ok") # {}
    /\ CallsWith({"helm.install"}, "ok") # {}
    /\ run.steps[Len(run.steps)] = [step |-> "k8s.clusterrole.update", out |-> "error"]
    /\ ~ cluster.roleDelete


\* an autoscalerUninstall run that has not called Secrets.Delete
UninstallBeforeDelete(r) ==
    /\ r # NoRun /\ r.target = "autoscalerUninstall"
    /\ \A i \in 1..Len(r.steps) : r.steps[i].step # "k8s.secret.delete"

\* C20: autoscalerUninstall deletes the cloud-config secret only after the
\* Helm uninstall succeeded; a failed Helm uninstall returns an error and
\* leaves the secret in place; a delete that finds the secret absent is a
\* success
C20_UninstallThenDelete ==
    /\ []((run # NoRun /\ run.target = "autoscalerUninstall") =>
             /\ \A i \in StepsOf("k8s.secret.delete") :
                    \E k \in CallsWith({"helm.uninstall"}, "ok") : k < i
             /\ \A i \in CallsWith({"helm.uninstall"}, "error") :
                    /\ i = Len(run.steps) /\ run.pc = "done" /\ run.err # ""
                    /\ StepsOf("k8s.secret.delete") = {}
             /\ \A i \in CallsWith({"k8s.secret.delete"}, "notfound") :
                    i = Len(run.steps) /\ run.pc = "done" /\ run.err = ""
             /\ (run.pc = "done" /\ run.err = "") =>
                    ~ cluster.secret /\ "autoscaler" \notin cluster.releases)
    /\ [][UninstallBeforeDelete(run') => cluster'.secret = cluster.secret]_vars

\* C20 witness: the release was uninstalled, the secret was already gone,
\* and the target returned success
C20_Witness ==
    /\ run # NoRun /\ run.target = "autoscalerUninstall"
    /\ run.pc = "done" /\ run.err = ""
    /\ CallsWith({"helm.uninstall"}, "ok") # {}
    /\ run.steps[Len(run.steps)] = [step |-> "k8s.secret.delete", out |-> "notfound"]


(***************************************************************************)
(* Properties of the Crossplane runner Deployer (SpecXp).                  *)
(***************************************************************************)
\* the VMs Deploy created in a namespace that have not been deleted
XpDeployedIn(namespace) ==
    {i \in 1..Len(cluster.xvms) :
        cluster.xvms[i].by = "deploy" /\ cluster.xvms[i].namespace = namespace}

\* C18 as claimed: a List that succeeded contains every VM that Deploy
\* created in its namespace and that was not deleted, and every VM it
\* contains carries tag runner
C18_ListReturnsDeployed ==
    (ret # NoRet /\ ret.op = "list" /\ ret.err = "") =>
        /\ \A i \in XpDeployedIn(ret.namespace) :
               \E k \in 1..Len(ret.vms) : ret.vms[k].name = cluster.xvms[i].name
        /\ \A k \in 1..Len(ret.vms) : hasTag(ret.vms[k].tags, "runner")


(***************************************************************************)
(* Properties of the cloud-config (SpecCc).                                *)
(***************************************************************************)
\* C21 as claimed: under one environment and cluster state, autoscalerConfig
\* prints a cloud-config exactly when autoscalerInstall stores one, and the
\* two texts are the same
C21_PrintedIsStored ==
    (ret # NoRet /\ ret.printed # NoOutcome /\ ret.stored # NoOutcome) =>
        /\ ret.printed.err = "" <=> ret.stored.err = ""
        /\ ret.printed.text = ret.stored.text


(***************************************************************************)
(* Properties of CreateCloudConfigSecret (SpecSeq, SpecSec).               *)
(***************************************************************************)
\* the step in which the call of caller c returns
SecReturns(c) == run[c].pc \in {"get", "create", "update"} /\ run'[c].pc = "done"

\* do two data maps agree on every key but cloud-config
SameOtherKeys(d1, d2) ==
    /\ (DOMAIN d1) \ {"cloud-config"} = (DOMAIN d2) \ {"cloud-config"}
    /\ \A k \in (DOMAIN d1) \ {"cloud-config"} : d1[k] = d2[k]

\* C22: with no concurrent writer and a reachable cluster the call succeeds
\* with one Create when the secret is absent and with one Update of the
\* fetched object when it is present; after a successful return the
\* cloud-config entry of the secret is the argument; a second call in a row
\* with the same argument succeeds and leaves the content of the first; an
\* error of the Get other than NotFound returns an error without a write
C22_CreateOrUpdate ==
    [][SecReturns(1) =>
          LET r == run'[1]
          IN  /\ r.fault = "none" => r.err = ""
              /\ r.err = "" =>
                     /\ cluster'.secret # NoSecret
                     /\ cluster'.secret.data["cloud-config"] = r.arg
                     /\ cluster.secret = NoSecret =>
                            r.wrote = "create" /\ DOMAIN cluster'.secret.data = {"cloud-config"}
                     /\ cluster.secret # NoSecret =>
                            /\ r.wrote = "update" /\ r.seen = cluster.secret
                            /\ SameOtherKeys(cluster'.secret.data, cluster.secret.data)
              /\ (r.err = "" /\ r.prev # NoPrev /\ r.prev.arg = r.arg
                            /\ r.prev.secret = r.seen) =>
                     cluster'.secret.data = r.prev.secret.data
              /\ r.fault = "get" => (r.err # "" /\ r.wrote = "" /\ cluster' = cluster)
              /\ r.err # "" => cluster' = cluster]_vars

\* C22 witness: a second call in a row with the argument of the first has
\* updated the secret it fetched and left the content of the first call
C22_Witness ==
    /\ run[1].pc = "done" /\ run[1].err = "" /\ run[1].calls = 2
    /\ run[1].wrote = "update"
    /\ run[1].prev # NoPrev /\ run[1].prev.arg = run[1].arg
    /\ run[1].prev.secret = run[1].seen
    /\ run[1].after.data = run[1].prev.secret.data
    /\ run[1].after.data["cloud-config"] = run[1].arg
    /\ "extra" \in DOMAIN run[1].after.data


\* the step in which caller c makes its write
SecWrites(c) == run[c].pc \in {"create", "update"} /\ run'[c] # run[c]

\* has the secret changed since caller c fetched it
SecStale(c) ==
    \/ run[c].pc = "create" /\ cluster.secret # NoSecret
    \/ run[c].pc = "update" /\ cluster.secret # run[c].seen

\* C23: with two callers interleaved, a call that returns success has stored
\* its own cloud-config by its write; the content of the secret only ever
\* becomes the argument of a call that returns success with that write; and
\* a call whose fetched view another write has overtaken returns an error,
\* without a retry and without a change of the secret
C23_NoLostUpdate ==
    [][/\ \A c \in DOMAIN run :
              (SecReturns(c) /\ run'[c].err = "") =>
                  /\ cluster'.secret # NoSecret
                  /\ cluster'.secret.data["cloud-config"] = run'[c].arg
                  /\ cluster'.secret = run'[c].after
       /\ (cluster'.secret # cluster.secret /\ cluster'.secret # NoSecret) =>
              \E c \in DOMAIN run :
                  /\ SecReturns(c) /\ run'[c].err = ""
                  /\ cluster'.secret.data["cloud-config"] = run'[c].arg
       /\ \A c \in DOMAIN run :
              (SecWrites(c) /\ SecStale(c)) =>
                  /\ run'[c].pc = "done" /\ run'[c].err # ""
                  /\ cluster' = cluster]_vars

\* C23 witness: both callers fetched the secret, the first stored its
\* cloud-config, and the second, whose argument is another, was refused for
\* its resourceVersion and returned an error
C23_Witness ==
    /\ run[1].pc = "done" /\ run[1].err = "" /\ run[1].wrote = "update"
    /\ run[2].pc = "done" /\ run[2].out = "conflict"
    /\ run[2].err = "failed to update secret"
    /\ run[1].seen = run[2].seen
    /\ run[1].arg # run[2].arg
    /\ cluster.secret = run[1].after
    /\ cluster.secret.data["cloud-config"] = run[1].arg


(***************************************************************************)
(* Properties of PatchClusterRole (SpecRole).                              *)
(***************************************************************************)
\* how often verb occurs in verbs
VerbCount(verbs, verb) == Cardinality({k \in 1..Len(verbs) : verbs[k] = verb})

\* does the rule name resource nodes
OnNodes(rule) == \E j \in 1..Len(rule.Resources) : rule.Resources[j] = "nodes"

\* C24: after a successful PatchClusterRole every rule on nodes has verb
\* delete; such a rule gains one delete when it had none, also when nodes
\* occurs twice in its resources, and none when it had one; a rule not on
\* nodes keeps its verbs; a second call leaves the rules of the first
C24_PatchAddsDeleteOnce ==
    (ret # NoRet /\ ret.once.err = "") =>
        /\ Len(ret.once.rules) = Len(arg.rules)
        /\ \A i \in 1..Len(arg.rules) :
               LET before == arg.rules[i]
                   after  == ret.once.rules[i]
               IN  /\ after.Resources = before.Resources
                   /\ OnNodes(before) => VerbCount(after.Verbs, "delete") >= 1
                   /\ (OnNodes(before) /\ VerbCount(before.Verbs, "delete") = 0) =>
                          after.Verbs = Append(before.Verbs, "delete")
                   /\ (OnNodes(before) /\ VerbCount(before.Verbs, "delete") > 0) =>
                          after.Verbs = before.Verbs
                   /\ ~ OnNodes(before) => after.Verbs = before.Verbs
        /\ ret.twice.err = ""
        /\ ret.twice.rules = ret.once.rules

\* C24 witness: a rule that names nodes twice and had no delete gained one
\* delete, next to a rule on pods that kept its verbs
C24_Witness ==
    /\ ret # NoRet /\ ret.once.err = ""
    /\ Len(arg.rules) = 2
    /\ arg.rules[1] = [Resources |-> <<"nodes", "nodes">>, Verbs |-> <<"get">>]
    /\ arg.rules[2] = [Resources |-> <<"pods">>, Verbs |-> <<"get">>]
    /\ ret.once.rules[1].Verbs = <<"get", "delete">>
    /\ ret.once.rules[2].Verbs = <<"get">>


(***************************************************************************)
(* Properties of the stress-test targets (SpecStress).                     *)
(***************************************************************************)
\* C25 as claimed: autoscalerStressTestStatus prints "No stress test
\* deployment found" exactly when the deployment does not exist, and the
\* ready/total line whenever it exists
C25_NotFoundIffAbsent ==
    (ret # NoRet /\ ret.op = "status" /\ ret.err = "") =>
        (ret.line = "No stress test deployment found"
            <=> cluster.deployment = NoDeployment)

====
